---- MODULE Spec2Model ----
(***************************************************************************)
(* A model of slither-dataflow: the taint graph builder and reachability   *)
(* query of TaintAnalyzer (src/slither_dataflow/analyzers/taint.py), the   *)
(* name resolvers of src/slither_dataflow/utils/helpers.py, and the        *)
(* direct-dependency extractor and reverse path search of                  *)
(* src/taint_analysis.py.                                                  *)
(*                                                                         *)
(* Two specifications share the module.  Spec runs TaintAnalyzer.analyze   *)
(* on a contract drawn from Contracts; SpecDep runs                        *)
(* compute_direct_dependencies over a unit's IR operations and then        *)
(* find_dependency_paths queries over the resulting map.                   *)
(***************************************************************************)
EXTENDS Integers, Sequences, FiniteSets, TLC

(***************************************************************************)
(* Generic helpers.                                                        *)
(***************************************************************************)
Range(s) == { s[i] : i \in DOMAIN s }

RECURSIVE FoldLeft(_, _, _)
FoldLeft(Op(_, _), acc, s) ==
  IF s = <<>> THEN acc ELSE FoldLeft(Op, Op(acc, Head(s)), Tail(s))

RECURSIVE Flatten(_)
Flatten(ss) == IF ss = <<>> THEN <<>> ELSE Head(ss) \o Flatten(Tail(ss))

(***************************************************************************)
(* The Program Facade (slither): variable handles, expressions, statement  *)
(* nodes, functions, contracts.  A handle's identity is its id; its name   *)
(* is only an attribute, so two handles may carry the same name.           *)
(***************************************************************************)
NoVar == [id |-> 0, name |-> "", kind |-> "none", function |-> 0]

\* A StateVariable of the contract.
StateVar(i, n) == [id |-> i, name |-> n, kind |-> "state", function |-> 0]

\* A LocalVariable declared in function f (an index into contract.functions).
LocalVar(i, n, f) == [id |-> i, name |-> n, kind |-> "local", function |-> f]

\* Whether a member value is a slither Variable (and not a Function, a
\* SolidityVariable or nothing).
IsVariable(v) == v.kind \in {"state", "local"}

\* Expressions.  sub holds the Expression-valued attributes, arguments the
\* list-valued one of a CallExpression, text the result of str(expression).
Identifier(v) ==
  [class |-> "Identifier", value |-> v, sub |-> <<>>, arguments |-> <<>>,
   has_arguments |-> FALSE, text |-> v.name]

\* An Identifier whose value is no Variable: a called Function, or a
\* SolidityVariable such as msg.sender.
FunctionIdentifier(n) ==
  [class |-> "Identifier",
   value |-> [id |-> 0, name |-> n, kind |-> "function", function |-> 0],
   sub |-> <<>>, arguments |-> <<>>, has_arguments |-> FALSE, text |-> n]

Literal(t) ==
  [class |-> "Literal", value |-> NoVar, sub |-> <<>>, arguments |-> <<>>,
   has_arguments |-> FALSE, text |-> t]

AssignmentOperation(l, op, r) ==
  [class |-> "AssignmentOperation", value |-> NoVar, sub |-> <<l, r>>,
   arguments |-> <<>>, has_arguments |-> FALSE,
   text |-> l.text \o " " \o op \o " " \o r.text]

BinaryOperation(l, op, r) ==
  [class |-> "BinaryOperation", value |-> NoVar, sub |-> <<l, r>>,
   arguments |-> <<>>, has_arguments |-> FALSE,
   text |-> l.text \o " " \o op \o " " \o r.text]

IndexAccess(l, r) ==
  [class |-> "IndexAccess", value |-> NoVar, sub |-> <<l, r>>,
   arguments |-> <<>>, has_arguments |-> FALSE,
   text |-> l.text \o "[" \o r.text \o "]"]

RECURSIVE JoinTexts(_)
JoinTexts(es) ==
  IF es = <<>> THEN ""
  ELSE IF Len(es) = 1 THEN es[1].text
  ELSE es[1].text \o "," \o JoinTexts(Tail(es))

CallExpression(called, args) ==
  [class |-> "CallExpression", value |-> NoVar, sub |-> <<called>>,
   arguments |-> args, has_arguments |-> TRUE,
   text |-> called.text \o "(" \o JoinTexts(args) \o ")"]

\* node.expression of a node that has none.
NoExpression ==
  [class |-> "None", value |-> NoVar, sub |-> <<>>, arguments |-> <<>>,
   has_arguments |-> FALSE, text |-> ""]

\* A statement node.  line 0 stands for an empty source_mapping.lines.
Node(e, lw, lr, sw, sr, calls, ln) ==
  [expression |-> e, local_variables_written |-> lw,
   local_variables_read |-> lr, state_variables_written |-> sw,
   state_variables_read |-> sr, internal_calls |-> calls, line |-> ln]

\* A function: its name, its ordered parameters, its statement nodes.
Function(n, ps, ns) == [name |-> n, parameters |-> ps, nodes |-> ns]

\* A contract: its ordered functions, and the data dependencies slither's
\* is_dependent reports, as triples <<variable, source, function index>>.
Contract(fs, deps) == [functions |-> fs, dependencies |-> deps]

(***************************************************************************)
(* The contracts analysed.  Each is a unit as slither presents it.         *)
(***************************************************************************)

\* Scenarios 1 and 4 of the specification:
\*   function withdraw(uint amount) {
\*     require(msg.sender == owner);
\*     uint local = amount;
\*     balances[msg.sender] -= local; }
Scenario1 ==
  LET amount   == LocalVar(1, "amount", 1)
      local    == LocalVar(2, "local", 1)
      balances == StateVar(3, "balances")
      owner    == StateVar(4, "owner")
      sender   == FunctionIdentifier("msg.sender")
  IN Contract(
       << Function("withdraw", <<amount>>,
            << Node(CallExpression(FunctionIdentifier("require"),
                      << BinaryOperation(sender, "==", Identifier(owner)) >>),
                    <<>>, <<>>, <<>>, <<owner>>, <<>>, 11),
               Node(AssignmentOperation(Identifier(local), "=", Identifier(amount)),
                    <<local>>, <<amount>>, <<>>, <<>>, <<>>, 12),
               Node(AssignmentOperation(IndexAccess(Identifier(balances), sender),
                                        "-=", Identifier(local)),
                    <<>>, <<local>>, <<balances>>, <<balances>>, <<>>, 13) >>) >>,
       { <<local, amount, 1>>, <<balances, local, 1>>, <<balances, amount, 1>>,
         <<balances, balances, 1>> })

\* Scenario 2:  function setRate(uint r) { rate = r; }
\*              function compute() { uint out = rate; }
Scenario2 ==
  LET r    == LocalVar(1, "r", 1)
      rate == StateVar(2, "rate")
      out  == LocalVar(3, "out", 2)
  IN Contract(
       << Function("setRate", <<r>>,
            << Node(AssignmentOperation(Identifier(rate), "=", Identifier(r)),
                    <<>>, <<r>>, <<rate>>, <<>>, <<>>, 21) >>),
          Function("compute", <<>>,
            << Node(AssignmentOperation(Identifier(out), "=", Identifier(rate)),
                    <<out>>, <<>>, <<>>, <<rate>>, <<>>, 22) >>) >>,
       { <<rate, r, 1>>, <<out, rate, 2>> })

\* Scenario 3:  function inner(uint p) { uint q = p; }
\*              function outer(uint x) { inner(x); }
Scenario3 ==
  LET p == LocalVar(1, "p", 1)
      q == LocalVar(2, "q", 1)
      x == LocalVar(3, "x", 2)
  IN Contract(
       << Function("inner", <<p>>,
            << Node(AssignmentOperation(Identifier(q), "=", Identifier(p)),
                    <<q>>, <<p>>, <<>>, <<>>, <<>>, 31) >>),
          Function("outer", <<x>>,
            << Node(CallExpression(FunctionIdentifier("inner"), <<Identifier(x)>>),
                    <<>>, <<x>>, <<>>, <<>>, <<1>>, 32) >>) >>,
       { <<q, p, 1>> })

\* Two functions that read and write each other's state:
\*   function inc() { s = t; }     function dec() { t = s; }
MutualState ==
  LET s == StateVar(1, "s")
      t == StateVar(2, "t")
  IN Contract(
       << Function("inc", <<>>,
            << Node(AssignmentOperation(Identifier(s), "=", Identifier(t)),
                    <<>>, <<>>, <<s>>, <<t>>, <<>>, 41) >>),
          Function("dec", <<>>,
            << Node(AssignmentOperation(Identifier(t), "=", Identifier(s)),
                    <<>>, <<>>, <<t>>, <<s>>, <<>>, 42) >>) >>,
       { <<s, t, 1>>, <<t, s, 2>> })

\* A function whose name is the word _node_key uses for "no function":
\*   function global(uint g) { uint h = g; }
\*   function caller(uint c) { global(c); }
GlobalNamed ==
  LET g == LocalVar(1, "g", 1)
      h == LocalVar(2, "h", 1)
      c == LocalVar(3, "c", 2)
  IN Contract(
       << Function("global", <<g>>,
            << Node(AssignmentOperation(Identifier(h), "=", Identifier(g)),
                    <<h>>, <<g>>, <<>>, <<>>, <<>>, 51) >>),
          Function("caller", <<c>>,
            << Node(CallExpression(FunctionIdentifier("global"), <<Identifier(c)>>),
                    <<>>, <<c>>, <<>>, <<>>, <<1>>, 52) >>) >>,
       { <<h, g, 1>> })

\* A local that shadows a state variable from its declaration on:
\*   function f(uint a) { x = a; uint x = a; }      (the first x is the state x)
Shadow ==
  LET a      == LocalVar(1, "a", 1)
      xState == StateVar(2, "x")
      xLocal == LocalVar(3, "x", 1)
  IN Contract(
       << Function("f", <<a>>,
            << Node(AssignmentOperation(Identifier(xState), "=", Identifier(a)),
                    <<>>, <<a>>, <<xState>>, <<>>, <<>>, 61),
               Node(AssignmentOperation(Identifier(xLocal), "=", Identifier(a)),
                    <<xLocal>>, <<a>>, <<>>, <<>>, <<>>, 62) >>) >>,
       { <<xState, a, 1>>, <<xLocal, a, 1>> })

\* Two overloads:  function f(uint a) { uint r = a; }
\*                 function f(uint a, uint b) { f(a); }
Overload ==
  LET a1 == LocalVar(1, "a", 1)
      r  == LocalVar(2, "r", 1)
      a2 == LocalVar(3, "a", 2)
      b  == LocalVar(4, "b", 2)
  IN Contract(
       << Function("f", <<a1>>,
            << Node(AssignmentOperation(Identifier(r), "=", Identifier(a1)),
                    <<r>>, <<a1>>, <<>>, <<>>, <<>>, 71) >>),
          Function("f", <<a2, b>>,
            << Node(CallExpression(FunctionIdentifier("f"), <<Identifier(a2)>>),
                    <<>>, <<a2>>, <<>>, <<>>, <<1>>, 72) >>) >>,
       { <<r, a1, 1>> })

\* A call whose first argument mentions two variables:
\*   function callee(uint p, uint r) { uint q = p; }
\*   function caller(uint a, uint b, uint c) { callee(a + b, c); }
TwoArguments ==
  LET p == LocalVar(1, "p", 1)
      r == LocalVar(2, "r", 1)
      q == LocalVar(3, "q", 1)
      a == LocalVar(4, "a", 2)
      b == LocalVar(5, "b", 2)
      c == LocalVar(6, "c", 2)
  IN Contract(
       << Function("callee", <<p, r>>,
            << Node(AssignmentOperation(Identifier(q), "=", Identifier(p)),
                    <<q>>, <<p>>, <<>>, <<>>, <<>>, 75) >>),
          Function("caller", <<a, b, c>>,
            << Node(CallExpression(FunctionIdentifier("callee"),
                      << BinaryOperation(Identifier(a), "+", Identifier(b)),
                         Identifier(c) >>),
                    <<>>, <<a, b, c>>, <<>>, <<>>, <<1>>, 76) >>) >>,
       { <<q, p, 1>> })

\* Calls inside other expressions:
\*   function inner(uint p) { uint q = p; }
\*   function pair(uint m, uint n) { }
\*   function outer(uint x, uint z) { uint y = inner(x); pair(z, inner(x)); }
NestedCall ==
  LET p == LocalVar(1, "p", 1)
      q == LocalVar(2, "q", 1)
      m == LocalVar(3, "m", 2)
      n == LocalVar(4, "n", 2)
      x == LocalVar(5, "x", 3)
      z == LocalVar(6, "z", 3)
      y == LocalVar(7, "y", 3)
      innerOfX == CallExpression(FunctionIdentifier("inner"), <<Identifier(x)>>)
  IN Contract(
       << Function("inner", <<p>>,
            << Node(AssignmentOperation(Identifier(q), "=", Identifier(p)),
                    <<q>>, <<p>>, <<>>, <<>>, <<>>, 77) >>),
          Function("pair", <<m, n>>, <<>>),
          Function("outer", <<x, z>>,
            << Node(AssignmentOperation(Identifier(y), "=", innerOfX),
                    <<y>>, <<x>>, <<>>, <<>>, <<1>>, 78),
               Node(CallExpression(FunctionIdentifier("pair"),
                                   <<Identifier(z), innerOfX>>),
                    <<>>, <<x, z>>, <<>>, <<>>, <<2, 1>>, 79) >>) >>,
       { <<q, p, 1>>, <<y, x, 3>> })

\* An assignment for which the facade's is_dependent reports nothing:
\*   function f(uint a) { uint w = a; }
Unreported ==
  LET a == LocalVar(1, "a", 1)
      w == LocalVar(2, "w", 1)
  IN Contract(
       << Function("f", <<a>>,
            << Node(AssignmentOperation(Identifier(w), "=", Identifier(a)),
                    <<w>>, <<a>>, <<>>, <<>>, <<>>, 85) >>) >>,
       {})

\* A variable written twice from the same source:
\*   function f(uint a) { uint w = a; w = a + 1; }
Rewritten ==
  LET a == LocalVar(1, "a", 1)
      w == LocalVar(2, "w", 1)
  IN Contract(
       << Function("f", <<a>>,
            << Node(AssignmentOperation(Identifier(w), "=", Identifier(a)),
                    <<w>>, <<a>>, <<>>, <<>>, <<>>, 86),
               Node(AssignmentOperation(Identifier(w), "=",
                      BinaryOperation(Identifier(a), "+", Literal("1"))),
                    <<w>>, <<a>>, <<>>, <<>>, <<>>, 87) >>) >>,
       { <<w, a, 1>> })

\* A parameter named with a leading underscore beside a local of the bare
\* name:   function set(uint _v) { uint v = _v; }
Underscored ==
  LET param == LocalVar(1, "_v", 1)
      v     == LocalVar(2, "v", 1)
  IN Contract(
       << Function("set", <<param>>,
            << Node(AssignmentOperation(Identifier(v), "=", Identifier(param)),
                    <<v>>, <<param>>, <<>>, <<>>, <<>>, 88) >>) >>,
       { <<v, param, 1>> })

\* The largest call cycle analysed.
MaxRing == 3

\* A call cycle of n functions: F_i(uint p_i) { F_{i+1}(p_i); }, the last one
\* calling the first; n = 1 is a self-recursive function, n = 2 is "A calls B
\* calls A".
CallRing(n) ==
  LET next(i) == IF i = n THEN 1 ELSE i + 1
      param(i) == LocalVar(i, "p" \o ToString(i), i)
  IN Contract(
       [ i \in 1..n |->
           Function("F" \o ToString(i), <<param(i)>>,
             << Node(CallExpression(FunctionIdentifier("F" \o ToString(next(i))),
                                    <<Identifier(param(i))>>),
                     <<>>, <<param(i)>>, <<>>, <<>>, <<next(i)>>, 80 + i) >>) ],
       {})

Contracts ==
  << Scenario1, Scenario2, Scenario3, MutualState, GlobalNamed, Shadow, Overload,
     TwoArguments, NestedCall, Unreported, Rewritten, Underscored >>
  \o [ n \in 1..MaxRing |-> CallRing(n) ]

\* Position of the first call cycle in Contracts.
FirstRing == Len(Contracts) - MaxRing + 1

(***************************************************************************)
(* helpers.py                                                              *)
(***************************************************************************)
Min(S) == CHOOSE x \in S : \A y \in S : x <= y

\* The first element of seq that satisfies P, NoVar when there is none.
FirstMatch(P(_), seq) ==
  LET hits == { i \in DOMAIN seq : P(seq[i]) }
  IN IF hits = {} THEN NoVar ELSE seq[Min(hits)]

\* A lookup that falls back on the first function.
find_function_by_name_Default(c, function_name) ==
  IF \E i \in DOMAIN c.functions : c.functions[i].name = function_name
  THEN Min({ i \in DOMAIN c.functions : c.functions[i].name = function_name })
  ELSE 1

\* find_function_by_name: the index of the first function of that name, 0
\* (None) when there is none.
find_function_by_name(c, function_name) ==
  LET hits == { i \in DOMAIN c.functions : c.functions[i].name = function_name }
  IN IF hits = {} THEN 0 ELSE Min(hits)

\* find_variable_by_name: parameters first (also under the name with a
\* leading underscore), then locals written or read by a node, then state
\* variables read or written by a node; NoVar (None) otherwise.
find_variable_by_name(c, f, var_name) ==
  LET fn == c.functions[f]
      named(v) == v.name = var_name
      param == FirstMatch(LAMBDA q : q.name = var_name \/ q.name = "_" \o var_name,
                          fn.parameters)
      locals == Flatten([ i \in DOMAIN fn.nodes |->
                   fn.nodes[i].local_variables_written
                   \o fn.nodes[i].local_variables_read ])
      states == Flatten([ i \in DOMAIN fn.nodes |->
                   fn.nodes[i].state_variables_read
                   \o fn.nodes[i].state_variables_written ])
  IN IF param # NoVar THEN param
     ELSE IF FirstMatch(named, locals) # NoVar THEN FirstMatch(named, locals)
     ELSE FirstMatch(named, states)

\* get_expression_variables: the Variable held by an Identifier, and those of
\* every Expression found among the expression's attributes and in its
\* list-valued attributes.
RECURSIVE get_expression_variables(_)
get_expression_variables(e) ==
  (IF e.class = "Identifier" /\ IsVariable(e.value) THEN {e.value} ELSE {})
  \cup UNION { get_expression_variables(e.sub[i]) : i \in DOMAIN e.sub }
  \cup UNION { get_expression_variables(e.arguments[i]) : i \in DOMAIN e.arguments }

(***************************************************************************)
(* slither's is_dependent(variable, source, context): a variable depends   *)
(* on itself, and otherwise on what the function's data-dependency         *)
(* analysis recorded.                                                      *)
(***************************************************************************)
\* A facade that reports no dependency.
is_dependent_Never(c, variable, source, f) == FALSE

is_dependent(c, variable, source, f) ==
  variable = source \/ <<variable, source, f>> \in c.dependencies

(***************************************************************************)
(* networkx.DiGraph: node attributes by key (in insertion order), and one  *)
(* attribute record per ordered pair of keys.                              *)
(***************************************************************************)
EmptyMap == [ x \in {} |-> 0 ]

Put(f, k, v) == [ x \in DOMAIN f \cup {k} |-> IF x = k THEN v ELSE f[x] ]

DiGraph == [nodes |-> EmptyMap, order |-> <<>>, edges |-> EmptyMap]

\* The attribute record of a node that add_edge created: no attribute is set.
NoAttributes == [var |-> NoVar, function |-> 0, var_type |-> "None"]

\* G.add_node(key, **attrs): creates the node or overwrites its attributes.
add_node(G, key, attrs) ==
  [G EXCEPT !.nodes = Put(G.nodes, key, attrs),
            !.order = IF key \in DOMAIN G.nodes THEN @ ELSE Append(@, key)]

\* G.add_edge(u, v, **attrs): creates missing endpoints, then creates the
\* edge or overwrites its attributes.
add_edge(G, u, v, attrs) ==
  LET Gu == IF u \in DOMAIN G.nodes THEN G ELSE add_node(G, u, NoAttributes)
      Gv == IF v \in DOMAIN Gu.nodes THEN Gu ELSE add_node(Gu, v, NoAttributes)
  IN [Gv EXCEPT !.edges = Put(Gv.edges, <<u, v>>, attrs)]

Successors(G, S) == { e[2] : e \in { d \in DOMAIN G.edges : d[1] \in S } }

\* The keys reachable from key s along directed edges (s included).
RECURSIVE ReachableFrom(_, _)
ReachableFrom(G, S) ==
  LET T == S \cup Successors(G, S)
  IN IF T = S THEN S ELSE ReachableFrom(G, T)

\* The paths of exactly k edges from u to v.
RECURSIVE PathsOfLength(_, _, _, _)
PathsOfLength(G, k, u, v) ==
  IF k = 0 THEN (IF u = v THEN { <<u>> } ELSE {})
  ELSE UNION { { <<u>> \o q : q \in PathsOfLength(G, k - 1, w, v) }
               : w \in Successors(G, {u}) }

\* The number of edges of a shortest path from u to v (v reachable from u).
Distance(G, u, v) ==
  Min({ k \in 0..Cardinality(DOMAIN G.nodes) : PathsOfLength(G, k, u, v) # {} })

\* What nx.shortest_path(G, source, target) can do: raise NodeNotFound when an
\* endpoint is no node, raise NetworkXNoPath when there is no path, and return
\* one of the paths with the fewest edges otherwise.
shortest_path(G, source, target) ==
  IF source \notin DOMAIN G.nodes \/ target \notin DOMAIN G.nodes
  THEN { [raised |-> "NodeNotFound", path |-> <<>>] }
  ELSE IF target \notin ReachableFrom(G, {source})
  THEN { [raised |-> "NetworkXNoPath", path |-> <<>>] }
  ELSE { [raised |-> "None", path |-> q]
         : q \in PathsOfLength(G, Distance(G, source, target), source, target) }

(***************************************************************************)
(* TaintAnalyzer (analyzers/taint.py).  A function handle is its index in  *)
(* contract.functions; 0 is None.                                          *)
(***************************************************************************)

\* _node_key: the variable's name, "@", and the function's name or "global".
node_key(c, var, func) ==
  var.name \o "@" \o (IF func = 0 THEN "global" ELSE c.functions[func].name)

\* _get_var_type.
get_var_type(c, var) ==
  IF var.kind = "state" THEN "state"
  ELSE IF var.kind = "local"
  THEN (IF var \in Range(c.functions[var.function].parameters)
        THEN "parameter" ELSE "local")
  ELSE "unknown"

NodeAttributes(c, var, func) ==
  [var |-> var, function |-> func, var_type |-> get_var_type(c, var)]

\* node.source_mapping.lines[0] if node.source_mapping.lines else None
\* (0 is None).
FirstLine(node) == node.line

\* A set iterated no further than its first element.
SetToSeq_First(S, order) ==
  IF S = {} THEN <<>>
  ELSE LET ids == { v.id : v \in S }
           pick == IF order = "ascending" THEN Min(ids)
                   ELSE CHOOSE i \in ids : \A j \in ids : j <= i
       IN << CHOOSE w \in S : w.id = pick >>

\* The iteration order of a Python set of variables is not fixed by the
\* language: ascending or descending by handle, as the run decides.
RECURSIVE SetToSeq(_, _)
SetToSeq(S, order) ==
  IF S = {} THEN <<>>
  ELSE LET ids == { v.id : v \in S }
           pick == IF order = "ascending" THEN Min(ids)
                   ELSE CHOOSE i \in ids : \A j \in ids : j <= i
           v == CHOOSE w \in S : w.id = pick
       IN <<v>> \o SetToSeq(S \ {v}, order)

\* An append whatever the processed set holds.
Enqueue_Always(queue, done, pair) == Append(queue, pair)

\* A worklist that takes a pair only while it is empty.
Enqueue_WhenEmpty(queue, done, pair) ==
  IF pair \notin done /\ queue = <<>> THEN Append(queue, pair) ELSE queue

\* if (v, f) not in processed: to_process.append((v, f))
Enqueue(queue, done, pair) ==
  IF pair \notin done THEN Append(queue, pair) ELSE queue

\* The state the three propagation rules thread through: the graph and the
\* worklist.
\* A discovery that adds the edge and leaves its endpoints to G.add_edge.
Discover_EdgeOnly(c, S, done, v, f, from, to, edge) ==
  [G |-> add_edge(S.G, from, to, edge),
   to_process |-> Enqueue(S.to_process, done, <<v, f>>)]

\* One discovery: G.add_node(key of (v, f)), G.add_edge(from, to), and the
\* append to the worklist unless (v, f) is processed.
Discover(c, S, done, v, f, from, to, edge) ==
  [G |-> add_edge(add_node(S.G, node_key(c, v, f), NodeAttributes(c, v, f)),
                  from, to, edge),
   to_process |-> Enqueue(S.to_process, done, <<v, f>>)]

\* _process_function_taint: for every node of func, the written variables
\* outside the expression's variables when var is one of them, then the
\* written variables that depend on var.
process_function_taint(c, S0, func, var, current_key, done) ==
  LET step(S, node) ==
        LET written == node.local_variables_written \o node.state_variables_written
            has_expr == node.expression.class # "None"
            expr_vars == get_expression_variables(node.expression)
            expr_str == IF has_expr THEN node.expression.text
                        ELSE "unknown expression"
            byUse(A, w) ==
              IF w \notin expr_vars
              THEN Discover(c, A, done, w, func, current_key, node_key(c, w, func),
                            [expression |-> node.expression.text,
                             line |-> FirstLine(node)])
              ELSE A
            byDependency(A, w) ==
              IF is_dependent(c, w, var, func)
              THEN Discover(c, A, done, w, func, current_key, node_key(c, w, func),
                            [expression |-> expr_str, line |-> FirstLine(node)])
              ELSE A
            S1 == IF has_expr /\ var \in expr_vars
                  THEN FoldLeft(byUse, S, written) ELSE S
        IN FoldLeft(byDependency, S1, written)
  IN FoldLeft(step, S0, c.functions[func].nodes)

\* The persistent-state rule left out.
process_state_var_taint_Off(c, S0, func, var, current_key, done) == S0

\* _process_state_var_taint: every node of every other function that reads
\* var gives the node (var, other function) and an edge to it.
process_state_var_taint(c, S0, func, var, current_key, done) ==
  LET perFunction(S, other) ==
        LET perNode(A, node) ==
              IF var \in Range(node.state_variables_read)
              THEN Discover(c, A, done, var, other, current_key,
                            node_key(c, var, other),
                            [expression |-> "State variable read in "
                                            \o c.functions[other].name,
                             line |-> 0])
              ELSE A
        IN IF other # func
           THEN FoldLeft(perNode, S, c.functions[other].nodes) ELSE S
  IN FoldLeft(perFunction, S0, [ i \in DOMAIN c.functions |-> i ])

\* _process_parameter_taint: every call of func whose expression has an
\* argument at var's position gives a node for each variable of that argument,
\* in the caller, with an edge from it to the current node.
process_parameter_taint(c, S0, func, var, current_key, done, order) ==
  LET param_idx == Min({ i \in DOMAIN c.functions[func].parameters :
                           c.functions[func].parameters[i] = var })
      perFunction(S, other) ==
        LET perNode(A, node) ==
              LET perArgument(B, arg_var) ==
                    Discover(c, B, done, arg_var, other,
                             node_key(c, arg_var, other), current_key,
                             [expression |-> "Parameter " \o var.name
                                             \o " in call to "
                                             \o c.functions[func].name,
                              line |-> FirstLine(node)])
                  perCall(B, internal_call) ==
                    IF /\ internal_call = func
                       /\ node.expression.class # "None"
                       /\ node.expression.has_arguments
                       /\ param_idx <= Len(node.expression.arguments)
                    THEN FoldLeft(perArgument, B,
                           SetToSeq(get_expression_variables(
                                      node.expression.arguments[param_idx]), order))
                    ELSE B
              IN FoldLeft(perCall, A, node.internal_calls)
        IN FoldLeft(perNode, S, c.functions[other].nodes)
  IN FoldLeft(perFunction, S0, [ i \in DOMAIN c.functions |-> i ])

\* processed.add((var, func))
MarkProcessed(done, pair) == done \cup {pair}

\* The worklist read without removing its first pair.
PopFirst_Peek(queue) == queue

\* to_process.pop(0): the worklist without its first pair.
PopFirst(queue) == Tail(queue)

\* One iteration of the while loop of _build_taint_graph for a pair that is
\* not processed yet: the three rules in their order.
process_pair(c, G0, queue, done, order) ==
  LET var == queue[1][1]
      func == queue[1][2]
      done1 == MarkProcessed(done, <<var, func>>)
      current_key == node_key(c, var, func)
      S0 == [G |-> G0, to_process |-> PopFirst(queue)]
      S1 == process_function_taint(c, S0, func, var, current_key, done1)
      S2 == IF var.kind = "state"
            THEN process_state_var_taint(c, S1, func, var, current_key, done1)
            ELSE S1
      S3 == IF var \in Range(c.functions[func].parameters)
            THEN process_parameter_taint(c, S2, func, var, current_key, done1, order)
            ELSE S2
  IN [G |-> S3.G, to_process |-> S3.to_process, processed |-> done1]

\* A graph started without the seed's node.
SeedGraph_Empty(c, source_func, source_var) == DiGraph

\* The graph _build_taint_graph starts from: the seed's node alone.
SeedGraph(c, source_func, source_var) ==
  add_node(DiGraph, node_key(c, source_var, source_func),
           NodeAttributes(c, source_var, source_func))

\* The while loop of _build_taint_graph, lines 117-134, run to its end.
RECURSIVE build_loop(_, _, _, _, _)
build_loop(c, G0, queue, done, order) ==
  IF queue = <<>> THEN G0
  ELSE IF queue[1] \in done THEN build_loop(c, G0, Tail(queue), done, order)
  ELSE LET S == process_pair(c, G0, queue, done, order)
       IN build_loop(c, S.G, S.to_process, S.processed, order)

\* _build_taint_graph as a whole: the graph it returns.
build_taint_graph(c, func, var, order) ==
  build_loop(c, SeedGraph(c, func, var), << <<var, func>> >>, {}, order)

\* The key _check_sink_tainted searches from: the source variable with no
\* function.
SourceKey(c, source_var) == node_key(c, source_var, 0)

\* Lines 270-275: the search, with NetworkXNoPath caught and every other
\* exception left to the caller.
search_sink(c, graph, source_var, sink_var, sink_func) ==
  { IF r.raised = "None"
    THEN [raised |-> "None", tainted |-> TRUE, path |-> r.path, searched |-> TRUE]
    ELSE IF r.raised = "NetworkXNoPath"
    THEN [raised |-> "None", tainted |-> FALSE, path |-> <<>>, searched |-> TRUE]
    ELSE [raised |-> r.raised, tainted |-> FALSE, path |-> <<>>, searched |-> TRUE]
    : r \in shortest_path(graph, SourceKey(c, source_var),
                          node_key(c, sink_var, sink_func)) }

\* The query without its test that the sink is a node of the graph.
check_sink_tainted_Unguarded(c, graph, source_var, sink_var, sink_func) ==
  search_sink(c, graph, source_var, sink_var, sink_func)

\* _check_sink_tainted: what it can return or raise.
check_sink_tainted(c, graph, source_var, sink_var, sink_func) ==
  IF node_key(c, sink_var, sink_func) \notin DOMAIN graph.nodes
  THEN { [raised |-> "None", tainted |-> FALSE, path |-> <<>>, searched |-> FALSE] }
  ELSE search_sink(c, graph, source_var, sink_var, sink_func)

\* _get_tainted_variables: one entry per node whose var and function
\* attributes are set, in node order.
get_tainted_variables(c, graph) ==
  LET entry(k) == [name |-> graph.nodes[k].var.name,
                   function |-> c.functions[graph.nodes[k].function].name,
                   type |-> graph.nodes[k].var_type]
      listed == SelectSeq(graph.order,
                  LAMBDA k : graph.nodes[k].var # NoVar /\ graph.nodes[k].function # 0)
  IN [ i \in DOMAIN listed |-> entry(listed[i]) ]

\* _format_taint_path: one step per edge of the path.
format_taint_path(c, graph, path) ==
  LET name_of(k) == IF graph.nodes[k].var # NoVar
                    THEN graph.nodes[k].var.name ELSE "unknown"
      function_of(k) == IF graph.nodes[k].function # 0
                        THEN c.functions[graph.nodes[k].function].name
                        ELSE "unknown"
  IN [ i \in 1..(Len(path) - 1) |->
         [from |-> [variable |-> name_of(path[i]), function |-> function_of(path[i])],
          to |-> [variable |-> name_of(path[i + 1]),
                  function |-> function_of(path[i + 1])],
          expression |-> graph.edges[<<path[i], path[i + 1]>>].expression,
          line |-> graph.edges[<<path[i], path[i + 1]>>].line] ]

(***************************************************************************)
(* taint_analysis.py: the IR the extractor reads.  An IR variable is a     *)
(* record; the SSA classes have a non_ssa_version, the others do not.      *)
(* An operation carries its lvalue's points_to beside the lvalue.          *)
(***************************************************************************)
IRVariable(class, name, index, storage) ==
  [class |-> class, name |-> name, index |-> index, is_storage |-> storage]

NoIR == IRVariable("None", "", 0, FALSE)

LocalIR(name, index) == IRVariable("LocalIRVariable", name, index, FALSE)

StateIR(name, index) == IRVariable("StateIRVariable", name, index, FALSE)

ReferenceIR(name, index) == IRVariable("ReferenceVariableSSA", name, index, FALSE)

\* A local storage pointer: a LocalIRVariable whose is_storage is set.
StorageIR(name, index) == IRVariable("LocalIRVariable", name, index, TRUE)

TemporaryIR(name, index) == IRVariable("TemporaryVariableSSA", name, index, FALSE)

Constant(value) == IRVariable("Constant", value, 0, FALSE)

\* The class of the non-SSA version of an SSA variable.
NonSsaClass(class) ==
  CASE class = "LocalIRVariable" -> "LocalVariable"
    [] class = "StateIRVariable" -> "StateVariable"
    [] class = "ReferenceVariableSSA" -> "ReferenceVariable"
    [] class = "TemporaryVariableSSA" -> "TemporaryVariable"
    [] OTHER -> class

\* non_ssa: v.non_ssa_version when v has one, v itself otherwise.
non_ssa(v) ==
  IF v.class \in {"LocalIRVariable", "StateIRVariable", "ReferenceVariableSSA",
                  "TemporaryVariableSSA"}
  THEN IRVariable(NonSsaClass(v.class), v.name, 0, v.is_storage)
  ELSE v

\* An IR operation.  with_lvalue: it is an OperationWithLValue; function: the
\* callee of an InternalCall was resolved (return_values_ssa are its).
Operation(class, with_lvalue, lvalue, points_to, variable_left, read, function, return_values_ssa) ==
  [class |-> class, with_lvalue |-> with_lvalue, lvalue |-> lvalue,
   points_to |-> points_to, variable_left |-> variable_left, read |-> read,
   function |-> function, return_values_ssa |-> return_values_ssa]

Assignment(lvalue, rvalue) ==
  Operation("Assignment", TRUE, lvalue, NoIR, NoIR, <<rvalue>>, FALSE, <<>>)

\* An assignment through a reference: the lvalue is a ReferenceVariable whose
\* points_to is set.
AssignmentThrough(lvalue, points_to, rvalue) ==
  Operation("Assignment", TRUE, lvalue, points_to, NoIR, <<rvalue>>, FALSE, <<>>)

Binary(lvalue, points_to, left, right) ==
  Operation("Binary", TRUE, lvalue, points_to, NoIR, <<left, right>>, FALSE, <<>>)

Phi(lvalue, rvalues) ==
  Operation("Phi", TRUE, lvalue, NoIR, NoIR, rvalues, FALSE, <<>>)

Index(lvalue, points_to, left, right) ==
  Operation("Index", TRUE, lvalue, points_to, left, <<left, right>>, FALSE, <<>>)

InternalCall(lvalue, arguments, returns) ==
  Operation("InternalCall", TRUE, lvalue, NoIR, NoIR, arguments, TRUE, returns)

\* An INTERNAL_CALL whose callee was not resolved (ir.function is None).
UnresolvedCall(lvalue, arguments) ==
  Operation("InternalCall", TRUE, lvalue, NoIR, NoIR, arguments, FALSE, <<>>)

\* The declared read operands whatever the operation.
ReadsOf_Declared(ir) == ir.read

\* The reads of one operation, lines 70-76.
ReadsOf(ir) ==
  IF ir.class = "Index" THEN <<ir.variable_left>>
  ELSE IF ir.class = "InternalCall" /\ ir.function THEN ir.return_values_ssa
  ELSE ir.read

\* The target left in its SSA version.
TargetOf_Ssa(ir) == IF ir.points_to # NoIR THEN ir.points_to ELSE ir.lvalue

\* The variable the dependencies of one operation are recorded on, lines
\* 63-68: the lvalue, or what it points to, in its non-SSA version.
TargetOf(ir) ==
  non_ssa(IF ir.points_to # NoIR THEN ir.points_to ELSE ir.lvalue)

\* The dependency set of lval replaced by the new dependency alone.
AddDependency_Overwrite(dd, lval, r) == Put(dd, lval, {r})

\* direct_dep[lval].add(r) on a defaultdict(set).
AddDependency(dd, lval, r) ==
  Put(dd, lval, (IF lval \in DOMAIN dd THEN dd[lval] ELSE {}) \cup {r})

\* The loop body with constants recorded like any other read.
extract_KeepConstants(dd, ir) ==
  IF ~(ir.with_lvalue /\ ir.lvalue # NoIR) THEN dd
  ELSE IF ir.lvalue.is_storage THEN dd
  ELSE LET perRead(acc, r) == AddDependency(acc, TargetOf(ir), non_ssa(r))
       IN FoldLeft(perRead, dd, ReadsOf(ir))

\* The loop body of compute_direct_dependencies for one IR operation, lines
\* 59-80.
extract(dd, ir) ==
  IF ~(ir.with_lvalue /\ ir.lvalue # NoIR) THEN dd
  ELSE IF ir.lvalue.is_storage THEN dd
  ELSE LET perRead(acc, r) ==
             IF r.class = "Constant" THEN acc
             ELSE AddDependency(acc, TargetOf(ir), non_ssa(r))
       IN FoldLeft(perRead, dd, ReadsOf(ir))

\* A set as a sequence, in some order.
RECURSIVE SeqOfSet(_)
SeqOfSet(S) ==
  IF S = {} THEN <<>>
  ELSE LET x == CHOOSE y \in S : TRUE IN <<x>> \o SeqOfSet(S \ {x})

\* The subsets of S of at most k elements.
RECURSIVE SubsetsUpTo(_, _)
SubsetsUpTo(S, k) ==
  IF k = 0 \/ S = {} THEN { {} }
  ELSE LET x == CHOOSE y \in S : TRUE
       IN SubsetsUpTo(S \ {x}, k) \cup
          { T \cup {x} : T \in SubsetsUpTo(S \ {x}, k - 1) }

\* The search leaving a variable's loop at the first precursor that gave a
\* path.
RECURSIVE dfs_FirstBranch(_, _, _, _)
dfs_FirstBranch(current, visited, dd, inputs) ==
  IF current \in inputs THEN << <<current>> >>
  ELSE IF current \notin DOMAIN dd THEN <<>>
  ELSE LET perPrecursor(acc, precursor) ==
             IF precursor \in visited \/ acc # <<>> THEN acc
             ELSE LET subpaths == dfs_FirstBranch(precursor, visited \cup {precursor},
                                                  dd, inputs)
                  IN acc \o [ i \in DOMAIN subpaths |-> Append(subpaths[i], current) ]
       IN FoldLeft(perPrecursor, <<>>, SeqOfSet(dd[current]))

\* find_dependency_paths.dfs, lines 93-106.  The order in which the
\* precursors of a variable are visited is that of a Python set.
RECURSIVE dfs(_, _, _, _)
dfs(current, visited, dd, inputs) ==
  IF current \in inputs THEN << <<current>> >>
  ELSE IF current \notin DOMAIN dd THEN <<>>
  ELSE LET perPrecursor(acc, precursor) ==
             IF precursor \in visited THEN acc
             ELSE LET subpaths == dfs(precursor, visited \cup {precursor}, dd, inputs)
                  IN acc \o [ i \in DOMAIN subpaths |-> Append(subpaths[i], current) ]
       IN FoldLeft(perPrecursor, <<>>, SeqOfSet(dd[current]))

\* The search started with nothing on the current path.
find_dependency_paths_Unvisited(t, dd, inputs) == dfs(t, {}, dd, inputs)

\* find_dependency_paths, line 108.
find_dependency_paths(t, dd, inputs) == dfs(t, {t}, dd, inputs)

(***************************************************************************)
(* The units whose IR is extracted.                                        *)
(***************************************************************************)

\* Scenario 3 as slither presents it: the entry point of a function holds
\* one Phi per parameter, whose operands are the arguments of the calls that
\* reach the function; the call itself has no lvalue here.
\*   inner:  p_1 := phi(x_1)    q_1 := p_1
\*   outer:  x_1 := phi()       INTERNAL_CALL inner(x_1)
Scenario3IR ==
  << [name |-> "inner",
      irs |-> << Phi(LocalIR("p", 1), << LocalIR("x", 1) >>),
                 Assignment(LocalIR("q", 1), LocalIR("p", 1)) >>],
     [name |-> "outer",
      irs |-> << Phi(LocalIR("x", 1), <<>>),
                 InternalCall(NoIR, << LocalIR("x", 1) >>, <<>>) >>] >>

\* Scenario 1:
\*   withdraw:  amount_1 := phi()
\*              local_1 := amount_1
\*              REF_0 -> balances_1[msg.sender]
\*              REF_0 (-> balances_1) = REF_0 - local_1
WithdrawIR ==
  << [name |-> "withdraw",
      irs |-> << Phi(LocalIR("amount", 1), <<>>),
                 Assignment(LocalIR("local", 1), LocalIR("amount", 1)),
                 Index(ReferenceIR("REF_0", 0), StateIR("balances", 1),
                       StateIR("balances", 1), Constant("msg.sender")),
                 Binary(ReferenceIR("REF_0", 0), StateIR("balances", 1),
                        ReferenceIR("REF_0", 0), LocalIR("local", 1)) >>] >>

\* A diamond behind an intermediate variable, and a second input:
\*   t = a + b;  a = m;  b = m;  m = i + j;
DiamondIR ==
  << [name |-> "diamond",
      irs |-> << Binary(LocalIR("t", 1), NoIR, LocalIR("a", 1), LocalIR("b", 1)),
                 Assignment(LocalIR("a", 1), LocalIR("m", 1)),
                 Assignment(LocalIR("b", 1), LocalIR("m", 1)),
                 Binary(LocalIR("m", 1), NoIR, LocalIR("i", 1), LocalIR("j", 1)) >>] >>

\* Literal operands:  c = 5;  d = c + 7;
ConstantsIR ==
  << [name |-> "constants",
      irs |-> << Assignment(LocalIR("c", 1), Constant("5")),
                 Binary(LocalIR("d", 1), NoIR, LocalIR("c", 1), Constant("7")) >>] >>

\* The read-set rule on an index and on a storage pointer:
\*   reader:  REF_0 -> a_1[i_1]
\*            x_1 := REF_0
\*            s_1 (storage) := REF_0
ReadSetIR ==
  << [name |-> "reader",
      irs |-> << Index(ReferenceIR("REF_0", 0), LocalIR("a", 1),
                       LocalIR("a", 1), LocalIR("i", 1)),
                 Assignment(LocalIR("x", 1), ReferenceIR("REF_0", 0)),
                 Assignment(StorageIR("s", 1), ReferenceIR("REF_0", 0)) >>] >>

\* The read-set rule on calls:
\*   caller:  TMP_0 = INTERNAL_CALL g(x_1), g returning ret_1
\*            TMP_1 = a call whose callee is not resolved, on x_1
CallReadIR ==
  << [name |-> "caller",
      irs |-> << InternalCall(TemporaryIR("TMP_0", 0), << LocalIR("x", 1) >>,
                              << LocalIR("ret", 1) >>),
                 UnresolvedCall(TemporaryIR("TMP_1", 0), << LocalIR("x", 1) >>) >>] >>

\* A nested indexed write, a[i][j] = x:
\*   nested:  REF_0 -> a_1[i_1]
\*            REF_1 -> REF_0[j_1]
\*            REF_1 (-> REF_0) := x_1
\* The points_to of a reference is the left operand of the Index that
\* defines it: a_1 for REF_0, REF_0 for REF_1.
NestedIndexIR ==
  << [name |-> "nested",
      irs |-> << Index(ReferenceIR("REF_0", 0), LocalIR("a", 1),
                       LocalIR("a", 1), LocalIR("i", 1)),
                 Index(ReferenceIR("REF_1", 0), ReferenceIR("REF_0", 0),
                       ReferenceIR("REF_0", 0), LocalIR("j", 1)),
                 AssignmentThrough(ReferenceIR("REF_1", 0), ReferenceIR("REF_0", 0),
                                   LocalIR("x", 1)) >>] >>

\* The generated units: one function of at most MaxDepOps assignments
\* between NumDepVars local variables.
NumDepVars == 3

MaxDepOps == 4

GeneratedVariables == { LocalIR("v" \o ToString(i), 1) : i \in 1..NumDepVars }

GeneratedOperations ==
  { Assignment(l, r) : l \in GeneratedVariables, r \in GeneratedVariables }

GeneratedUnits ==
  { << [name |-> "f", irs |-> SeqOfSet(S)] >>
    : S \in SubsetsUpTo(GeneratedOperations, MaxDepOps) }

DepUnits ==
  { Scenario3IR, WithdrawIR, DiamondIR, ConstantsIR, ReadSetIR, CallReadIR,
    NestedIndexIR }
  \cup GeneratedUnits

\* target_contract.functions + modifiers, their nodes, their irs_ssa: every
\* operation in the order lines 56-58 visit them.
AllIrs(u) == Flatten([ i \in DOMAIN u |-> u[i].irs ])

\* compute_direct_dependencies, lines 43 and 56-81: the map of a whole unit.
compute_direct_dependencies(u) == FoldLeft(extract, EmptyMap, AllIrs(u))

\* The variables a unit mentions, in their non-SSA version.
UnitVariables(u) ==
  { non_ssa(v) : v \in
      { w \in UNION { {ir.lvalue, ir.points_to, ir.variable_left}
                       \cup Range(ir.read) \cup Range(ir.return_values_ssa)
                       : ir \in Range(AllIrs(u)) }
        : w # NoIR /\ w.class # "Constant" } }

(***************************************************************************)
(* State.                                                                  *)
(***************************************************************************)
VARIABLES
  \* TaintAnalyzer.analyze
  contract,        \* the contract analysed: an index into Contracts
  args,            \* the four names analyze is called with
  set_order,       \* the iteration order of sets in this run
  pc,              \* where analyze is
  raised,          \* the exception that left analyze, "None" while none has
  source_func, sink_func, source_var, sink_var,   \* analyze's locals
  G, to_process, processed,                       \* _build_taint_graph's locals
  taint_graph,     \* self.taint_graph
  sink_tainted, taint_path, searched,             \* _check_sink_tainted's result
  result,          \* the dictionary analyze returns
  \* taint_analysis.py
  dep_pc,          \* where the dependency script is
  unit,            \* the functions compute_direct_dependencies walks
  next_ir,         \* the position of the next IR operation to extract
  direct_dep,      \* the direct-dependency map
  target, input_set, paths,   \* the last find_dependency_paths call
  stack            \* the frames of dfs while find_dependency_paths runs

analyzerVars ==
  << contract, args, set_order, pc, raised, source_func, sink_func, source_var,
     sink_var, G, to_process, processed, taint_graph, sink_tainted, taint_path,
     searched, result >>

depVars == << dep_pc, unit, next_ir, direct_dep, target, input_set, paths, stack >>

vars == << analyzerVars, depVars >>

C == Contracts[contract]

FunctionNames(c) == { c.functions[i].name : i \in DOMAIN c.functions }

VariablesOf(c) ==
  UNION { Range(c.functions[i].parameters)
          \cup UNION { Range(n.local_variables_written) \cup Range(n.local_variables_read)
                       \cup Range(n.state_variables_written)
                       \cup Range(n.state_variables_read)
                       : n \in Range(c.functions[i].nodes) }
          : i \in DOMAIN c.functions }

VariableNames(c) == { v.name : v \in VariablesOf(c) }

\* self.taint_graph before the first analyze.
NoGraph == [nodes |-> EmptyMap, order |-> <<>>, edges |-> EmptyMap]

EmptyResult(a) ==
  [source |-> [function |-> a.source_function, variable |-> a.source_variable],
   sink |-> [function |-> a.sink_function, variable |-> a.sink_variable],
   tainted_variables |-> <<>>, taint_path |-> <<>>, vulnerable |-> FALSE]

AnalyzerIdle ==
  /\ contract = 1
  /\ args = [source_function |-> "", source_variable |-> "",
             sink_function |-> "", sink_variable |-> ""]
  /\ set_order = "ascending"
  /\ pc = "idle"
  /\ raised = "None"
  /\ source_func = 0 /\ sink_func = 0
  /\ source_var = NoVar /\ sink_var = NoVar
  /\ G = NoGraph /\ to_process = <<>> /\ processed = {}
  /\ taint_graph = NoGraph
  /\ sink_tainted = FALSE /\ taint_path = <<>> /\ searched = FALSE
  /\ result = EmptyResult(args)

DepIdle ==
  /\ dep_pc = "idle"
  /\ unit = <<>>
  /\ next_ir = 1
  /\ direct_dep = EmptyMap
  /\ target = NoIR /\ input_set = {} /\ paths = <<>>
  /\ stack = <<>>

\* analyze is called on one of the contracts with any names of the contract,
\* or a name the contract does not have.
\* self.taint_graph when analyze is called: not set yet, or the graph an
\* earlier analyze of the contract stored, seeded at a parameter of its first
\* function.
PreviousGraphs(c) ==
  {NoGraph} \cup { build_taint_graph(c, 1, v, "ascending")
                   : v \in Range(c.functions[1].parameters) }

Init ==
  /\ contract \in DOMAIN Contracts
  /\ args \in [source_function : FunctionNames(C) \cup {"missing"},
               source_variable : VariableNames(C) \cup {"missing"},
               sink_function : FunctionNames(C) \cup {"missing"},
               sink_variable : VariableNames(C) \cup {"missing"}]
  /\ set_order \in {"ascending", "descending"}
  /\ pc = "analyze"
  /\ raised = "None"
  /\ source_func = 0 /\ sink_func = 0
  /\ source_var = NoVar /\ sink_var = NoVar
  /\ G = NoGraph /\ to_process = <<>> /\ processed = {}
  /\ taint_graph \in PreviousGraphs(C)
  /\ sink_tainted = FALSE /\ taint_path = <<>> /\ searched = FALSE
  /\ result = EmptyResult(args)
  /\ DepIdle

\* analyze, lines 42-72: the result skeleton and the four lookups; a lookup
\* that finds nothing raises ValueError.
Resolve ==
  /\ pc = "analyze"
  /\ LET sf == find_function_by_name(C, args.source_function)
         kf == find_function_by_name(C, args.sink_function)
         sv == IF sf # 0 /\ kf # 0
               THEN find_variable_by_name(C, sf, args.source_variable) ELSE NoVar
         kv == IF sf # 0 /\ kf # 0
               THEN find_variable_by_name(C, kf, args.sink_variable) ELSE NoVar
     IN IF sf = 0 \/ kf = 0 \/ sv = NoVar \/ kv = NoVar
        THEN /\ pc' = "raised"
             /\ raised' = "ValueError"
             /\ UNCHANGED << source_func, sink_func, source_var, sink_var >>
        ELSE /\ pc' = "build"
             /\ source_func' = sf /\ sink_func' = kf
             /\ source_var' = sv /\ sink_var' = kv
             /\ UNCHANGED raised
  /\ UNCHANGED << contract, args, set_order, G, to_process, processed, taint_graph,
                  sink_tainted, taint_path, searched, result, depVars >>

\* _build_taint_graph, lines 103-114: the seed node, the worklist holding the
\* seed pair, the empty processed set.
BuildStart ==
  /\ pc = "build"
  /\ G' = SeedGraph(C, source_func, source_var)
  /\ to_process' = << <<source_var, source_func>> >>
  /\ processed' = {}
  /\ pc' = "loop"
  /\ UNCHANGED << contract, args, set_order, raised, source_func, sink_func,
                  source_var, sink_var, taint_graph, sink_tainted, taint_path,
                  searched, result, depVars >>

\* Lines 117-120: the pair taken from the worklist is processed already.
BuildSkip ==
  /\ pc = "loop"
  /\ to_process # <<>>
  /\ to_process[1] \in processed
  /\ to_process' = PopFirst(to_process)
  /\ UNCHANGED << contract, args, set_order, pc, raised, source_func, sink_func,
                  source_var, sink_var, G, processed, taint_graph, sink_tainted,
                  taint_path, searched, result, depVars >>

\* Lines 117-134: the pair taken from the worklist is processed.
BuildProcess ==
  /\ pc = "loop"
  /\ to_process # <<>>
  /\ to_process[1] \notin processed
  /\ LET S == process_pair(C, G, to_process, processed, set_order)
     IN /\ G' = S.G
        /\ to_process' = S.to_process
        /\ processed' = S.processed
  /\ UNCHANGED << contract, args, set_order, pc, raised, source_func, sink_func,
                  source_var, sink_var, taint_graph, sink_tainted, taint_path,
                  searched, result, depVars >>

\* Lines 117, 136 and 75: the worklist is empty, the graph is returned and
\* stored.
BuildReturn ==
  /\ pc = "loop"
  /\ to_process = <<>>
  /\ taint_graph' = G
  /\ pc' = "check"
  /\ UNCHANGED << contract, args, set_order, raised, source_func, sink_func,
                  source_var, sink_var, G, to_process, processed, sink_tainted,
                  taint_path, searched, result, depVars >>

\* Lines 78-79: the reachability query; an exception it does not catch
\* leaves analyze.
CheckSink ==
  /\ pc = "check"
  /\ \E r \in check_sink_tainted(C, taint_graph, source_var, sink_var, sink_func) :
       /\ sink_tainted' = r.tainted
       /\ taint_path' = r.path
       /\ searched' = r.searched
       /\ raised' = r.raised
       /\ pc' = IF r.raised = "None" THEN "report" ELSE "raised"
  /\ UNCHANGED << contract, args, set_order, source_func, sink_func, source_var,
                  sink_var, G, to_process, processed, taint_graph, result, depVars >>

\* Lines 82-89: the result is filled in and returned.
Report ==
  /\ pc = "report"
  /\ result' = [result EXCEPT
       !.vulnerable = sink_tainted,
       !.tainted_variables = get_tainted_variables(C, taint_graph),
       !.taint_path = IF sink_tainted
                      THEN format_taint_path(C, taint_graph, taint_path) ELSE @]
  /\ pc' = "done"
  /\ UNCHANGED << contract, args, set_order, raised, source_func, sink_func,
                  source_var, sink_var, G, to_process, processed, taint_graph,
                  sink_tainted, taint_path, searched, depVars >>

Next ==
  \/ Resolve
  \/ BuildStart
  \/ BuildSkip
  \/ BuildProcess
  \/ BuildReturn
  \/ CheckSink
  \/ Report

Spec == Init /\ [][Next]_vars

\* The guard of BuildProcess.  Under it the step adds to_process[1] to
\* processed, so it changes vars: the guard is ENABLED <<BuildProcess>>_vars.
ProcessEnabled ==
  pc = "loop" /\ to_process # <<>> /\ to_process[1] \notin processed

\* The while loop of _build_taint_graph runs on: it is single-threaded code
\* that waits on nothing, so an iteration that can be taken is taken.  The
\* last conjunct is WF_vars(BuildProcess) with ENABLED written as the guard.
FairSpec ==
  /\ Spec
  /\ WF_vars(BuildSkip)
  /\ WF_vars(BuildReturn)
  /\ ([]<>~ProcessEnabled \/ []<><<BuildProcess>>_vars)

(***************************************************************************)
(* taint_analysis.py: the extraction of a unit, then one query.            *)
(***************************************************************************)
InitDep ==
  /\ AnalyzerIdle
  /\ dep_pc = "extract"
  /\ unit \in DepUnits
  /\ next_ir = 1
  /\ direct_dep = EmptyMap
  /\ target = NoIR /\ input_set = {} /\ paths = <<>>
  /\ stack = <<>>

\* Lines 56-80 for one IR operation.
ExtractIR ==
  /\ dep_pc = "extract"
  /\ next_ir <= Len(AllIrs(unit))
  /\ direct_dep' = extract(direct_dep, AllIrs(unit)[next_ir])
  /\ next_ir' = next_ir + 1
  /\ UNCHANGED << dep_pc, unit, target, input_set, paths, stack, analyzerVars >>

\* Line 81: every operation is extracted, the map is returned.
ExtractReturn ==
  /\ dep_pc = "extract"
  /\ next_ir > Len(AllIrs(unit))
  /\ dep_pc' = "ready"
  /\ UNCHANGED << unit, next_ir, direct_dep, target, input_set, paths, stack,
                  analyzerVars >>

\* find_dependency_paths for any target and any input set over the unit's
\* variables.
Query ==
  /\ dep_pc = "ready"
  /\ \E t \in UnitVariables(unit), inputs \in SUBSET UnitVariables(unit) :
       /\ target' = t
       /\ input_set' = inputs
       /\ paths' = find_dependency_paths(t, direct_dep, inputs)
  /\ dep_pc' = "queried"
  /\ UNCHANGED << unit, next_ir, direct_dep, stack, analyzerVars >>

NextDep ==
  \/ ExtractIR
  \/ ExtractReturn
  \/ Query

SpecDep == InitDep /\ [][NextDep]_vars

(***************************************************************************)
(* taint_analysis.py: find_dependency_paths call by call.  Every call of   *)
(* dfs is a frame of the stack; the map is the defaultdict(set) that       *)
(* compute_direct_dependencies returned.                                   *)
(***************************************************************************)
\* The most frames dfs may nest.
RecursionLimit == 10

\* The most variables an input set holds.
MaxInputs == 2

\* A variable no operation of any unit mentions.
Absent == non_ssa(LocalIR("absent", 1))

\* The frame of the call dfs(current, visited): entered once line 99 is
\* reached, todo the precursors the loop of line 100 has yet to take, found
\* the list paths.
Frame(current, visited) ==
  [current |-> current, visited |-> visited, entered |-> FALSE,
   todo |-> <<>>, found |-> <<>>]

Top == stack[Len(stack)]

\* A test that finds every key.
HasEntry_Always(dd, k) == TRUE

\* Line 97: current in direct_dep.
HasEntry(dd, k) == k \in DOMAIN dd

\* direct_dep[k] on a defaultdict(set): the map after the access, a missing
\* key having been inserted with an empty set.
GetItem(dd, k) == IF k \in DOMAIN dd THEN dd ELSE Put(dd, k, {})

\* A test that finds no precursor on the branch.
OnBranch_Never(precursor, visited) == FALSE

\* Line 101: precursor in visited.
OnBranch(precursor, visited) == precursor \in visited

\* The stack after the top frame returned value to the frame below it, lines
\* 103-105.
Delivered(value) ==
  LET caller == stack[Len(stack) - 1]
      extended == [ i \in DOMAIN value |-> Append(value[i], caller.current) ]
  IN Append(SubSeq(stack, 1, Len(stack) - 2),
            [caller EXCEPT !.found = @ \o extended])

\* The top frame returns value: to its caller, or from find_dependency_paths
\* at line 108.
ReturnValue(value) ==
  IF Len(stack) = 1
  THEN stack' = <<>> /\ paths' = value /\ dep_pc' = "queried"
  ELSE stack' = Delivered(value) /\ UNCHANGED << paths, dep_pc >>

InitPaths ==
  /\ AnalyzerIdle
  /\ dep_pc = "ready"
  /\ unit \in DepUnits
  /\ next_ir = Len(AllIrs(unit)) + 1
  /\ direct_dep = compute_direct_dependencies(unit)
  /\ target = NoIR /\ input_set = {} /\ paths = <<>>
  /\ stack = <<>>

\* Line 108: find_dependency_paths is called, for a variable of the unit or
\* one the unit does not have, and calls dfs(target, {target}).
SearchCall ==
  /\ dep_pc \in {"ready", "queried"}
  /\ \E t \in UnitVariables(unit) \cup {Absent},
        inputs \in SubsetsUpTo(UnitVariables(unit), MaxInputs) :
       /\ target' = t
       /\ input_set' = inputs
       /\ stack' = << Frame(t, {t}) >>
  /\ paths' = <<>>
  /\ dep_pc' = "searching"
  /\ UNCHANGED << unit, next_ir, direct_dep, analyzerVars >>

\* Lines 95-100: the two early returns, or the loop is set up over
\* direct_dep[current].
SearchEnter ==
  /\ dep_pc = "searching"
  /\ ~Top.entered
  /\ IF Top.current \in input_set
     THEN ReturnValue(<< <<Top.current>> >>) /\ UNCHANGED direct_dep
     ELSE IF ~HasEntry(direct_dep, Top.current)
     THEN ReturnValue(<<>>) /\ UNCHANGED direct_dep
     ELSE /\ direct_dep' = GetItem(direct_dep, Top.current)
          /\ stack' = [stack EXCEPT ![Len(stack)] =
                         [@ EXCEPT !.entered = TRUE,
                                   !.todo = SeqOfSet(direct_dep'[Top.current])]]
          /\ UNCHANGED << paths, dep_pc >>
  /\ UNCHANGED << unit, next_ir, target, input_set, analyzerVars >>

\* Lines 100-102: the next precursor is in visited.
SearchSkip ==
  /\ dep_pc = "searching"
  /\ Top.entered /\ Top.todo # <<>>
  /\ OnBranch(Head(Top.todo), Top.visited)
  /\ stack' = [stack EXCEPT ![Len(stack)].todo = Tail(@)]
  /\ UNCHANGED << dep_pc, unit, next_ir, direct_dep, target, input_set, paths,
                  analyzerVars >>

\* Lines 100-103: the next precursor is not in visited, dfs is called on it.
SearchDescend ==
  /\ dep_pc = "searching"
  /\ Top.entered /\ Top.todo # <<>>
  /\ ~OnBranch(Head(Top.todo), Top.visited)
  /\ Len(stack) < RecursionLimit
  /\ stack' = Append([stack EXCEPT ![Len(stack)].todo = Tail(@)],
                     Frame(Head(Top.todo), Top.visited \cup {Head(Top.todo)}))
  /\ UNCHANGED << dep_pc, unit, next_ir, direct_dep, target, input_set, paths,
                  analyzerVars >>

\* Line 106: the loop is over, paths is returned.
SearchReturn ==
  /\ dep_pc = "searching"
  /\ Top.entered /\ Top.todo = <<>>
  /\ ReturnValue(Top.found)
  /\ UNCHANGED << unit, next_ir, direct_dep, target, input_set, analyzerVars >>

NextPaths ==
  \/ SearchCall
  \/ SearchEnter
  \/ SearchSkip
  \/ SearchDescend
  \/ SearchReturn

SpecPaths == InitPaths /\ [][NextPaths]_vars

\* dfs is straight-line code that waits on nothing: a call that can take a
\* step takes it.
FairSpecPaths ==
  /\ SpecPaths
  /\ WF_vars(SearchEnter)
  /\ WF_vars(SearchSkip)
  /\ WF_vars(SearchDescend)
  /\ WF_vars(SearchReturn)

(***************************************************************************)
(* TokenFlowAnalyzer (analyzers/token_flow.py).  It reads the text of      *)
(* statements: Python's "in", split("=") and strip() on str(expression).   *)
(* The entries of its result are modelled without their "type", which the  *)
(* variables of the model do not carry.                                    *)
(***************************************************************************)
\* t in s, for strings.
Contains(s, t) ==
  \E i \in 1..(Len(s) - Len(t) + 1) : SubSeq(s, i, i + Len(t) - 1) = t

\* The positions of "=" in s.
EqualsIn(s) == { i \in 1..Len(s) : SubSeq(s, i, i) = "=" }

\* s.split("=")[0] and s.split("=")[1], for an s that holds "=".
SplitFirst(s) == SubSeq(s, 1, Min(EqualsIn(s)) - 1)

SplitSecond(s) ==
  LET first == Min(EqualsIn(s))
      later == { i \in EqualsIn(s) : i > first }
  IN SubSeq(s, first + 1, IF later = {} THEN Len(s) ELSE Min(later) - 1)

\* s.strip(), for the blanks str(expression) puts around operators.
RECURSIVE StripLeft(_)
StripLeft(s) ==
  IF Len(s) > 0 /\ SubSeq(s, 1, 1) = " " THEN StripLeft(SubSeq(s, 2, Len(s))) ELSE s

RECURSIVE StripRight(_)
StripRight(s) ==
  IF Len(s) > 0 /\ SubSeq(s, Len(s), Len(s)) = " "
  THEN StripRight(SubSeq(s, 1, Len(s) - 1)) ELSE s

Strip(s) == StripRight(StripLeft(s))

\* str(node.expression), also of a node that has no expression.
ExpressionText(node) ==
  IF node.expression.class = "None" THEN "None" ELSE node.expression.text

\* A contract with the state variables it declares.
TokenContract(fs, deps, svs) ==
  [functions |-> fs, dependencies |-> deps, state_variables |-> svs]

\* A token contract:
\*   mapping balances; uint fee;
\*   function withdraw(uint amount) { uint local = amount;
\*                                    balances[msg.sender] -= local; }
\*   function setFee(uint amount) { fee = amount; }
\*   function deposit(uint value) { balances[msg.sender] += value; }
\*   function quote() { uint amount = fee * 2; }
Vault ==
  LET balances == StateVar(1, "balances")
      fee      == StateVar(2, "fee")
      amount1  == LocalVar(3, "amount", 1)
      local    == LocalVar(4, "local", 1)
      amount2  == LocalVar(5, "amount", 2)
      value    == LocalVar(6, "value", 3)
      amount4  == LocalVar(7, "amount", 4)
      sender   == FunctionIdentifier("msg.sender")
  IN TokenContract(
       << Function("withdraw", <<amount1>>,
            << Node(AssignmentOperation(Identifier(local), "=", Identifier(amount1)),
                    <<local>>, <<amount1>>, <<>>, <<>>, <<>>, 91),
               Node(AssignmentOperation(IndexAccess(Identifier(balances), sender),
                                        "-=", Identifier(local)),
                    <<>>, <<local>>, <<balances>>, <<balances>>, <<>>, 92) >>),
          Function("setFee", <<amount2>>,
            << Node(AssignmentOperation(Identifier(fee), "=", Identifier(amount2)),
                    <<>>, <<amount2>>, <<fee>>, <<>>, <<>>, 93) >>),
          Function("deposit", <<value>>,
            << Node(AssignmentOperation(IndexAccess(Identifier(balances), sender),
                                        "+=", Identifier(value)),
                    <<>>, <<value>>, <<balances>>, <<balances>>, <<>>, 94) >>),
          Function("quote", <<>>,
            << Node(AssignmentOperation(Identifier(amount4), "=",
                      BinaryOperation(Identifier(fee), "*", Literal("2"))),
                    <<amount4>>, <<>>, <<>>, <<fee>>, <<>>, 95) >>) >>,
       { <<local, amount1, 1>>, <<balances, local, 1>>, <<balances, amount1, 1>>,
         <<fee, amount2, 2>>, <<balances, value, 3>>, <<amount4, fee, 4>> },
       <<balances, fee>>)

\* Scenario 2 with its declaration:  uint rate;
Rates ==
  TokenContract(Scenario2.functions, Scenario2.dependencies, << StateVar(2, "rate") >>)

\* Scenario 1 with its declarations:  mapping balances; address owner;
Withdrawal ==
  TokenContract(Scenario1.functions, Scenario1.dependencies,
                << StateVar(3, "balances"), StateVar(4, "owner") >>)

TokenContracts == << Vault, Rates, Withdrawal >>

TC == TokenContracts[contract]

\* An entry of result["inputs"], with or without a "value".
Input(name) == [name |-> name, has_value |-> FALSE, value |-> ""]

InputWithValue(name, value) == [name |-> name, has_value |-> TRUE, value |-> value]

\* An entry of result["state_variables"].
Listed(name) == [name |-> name]

Names(entries) == { entries[i].name : i \in DOMAIN entries }

\* if not any(i["name"] == name for i in entries): entries.append(entry)
AppendNew(entries, entry) ==
  IF entry.name \in Names(entries) THEN entries ELSE Append(entries, entry)

\* Lines 41-45: the first function of that name, 0 (None) when there is none.
TargetFunction(c, function_name) ==
  LET hits == { i \in DOMAIN c.functions : c.functions[i].name = function_name }
  IN IF hits = {} THEN 0 ELSE Min(hits)

\* param.name == amount_var or param.name == f"_{amount_var}"
IsAmountParameter(q, amount_var) == q.name = amount_var \/ q.name = "_" \o amount_var

\* _find_input_parameters.
find_input_parameters(c, f, amount_var, inputs) ==
  LET fn == c.functions[f]
      matching == SelectSeq(fn.parameters, LAMBDA q : IsAmountParameter(q, amount_var))
      inputs0 == inputs \o [ i \in DOMAIN matching |-> Input(matching[i].name) ]
      withExpression == SelectSeq(fn.nodes, LAMBDA node : node.expression.class # "None")
      assigned(node) ==
        /\ Contains(ExpressionText(node), "=")
        /\ Contains(Strip(SplitFirst(ExpressionText(node))), amount_var)
      right_side(node) == Strip(SplitSecond(ExpressionText(node)))
      forward(acc, node) ==
        LET perLocal(a, local_var) ==
              IF local_var.name = amount_var
              THEN AppendNew(a, InputWithValue(local_var.name, right_side(node)))
              ELSE a
        IN IF assigned(node) THEN FoldLeft(perLocal, acc, node.local_variables_written)
           ELSE acc
      inputs1 == FoldLeft(forward, inputs0, withExpression)
      fromAssignment(acc, node) ==
        LET perParam(a, q) ==
              IF Contains(right_side(node), q.name) THEN AppendNew(a, Input(q.name)) ELSE a
        IN FoldLeft(perParam, acc, fn.parameters)
      inputs2 == FoldLeft(fromAssignment, inputs1, SelectSeq(withExpression, assigned))
      backward(acc, node) ==
        LET perLocal(a, local_var) ==
              LET perParam(b, q) ==
                    IF \E check_node \in Range(fn.nodes) :
                         /\ Contains(ExpressionText(check_node), q.name)
                         /\ Contains(ExpressionText(check_node), local_var.name)
                    THEN AppendNew(b, Input(q.name)) ELSE b
              IN IF Contains(Strip(SplitFirst(ExpressionText(node))), local_var.name)
                 THEN AppendNew(FoldLeft(perParam, a, fn.parameters),
                                InputWithValue(local_var.name,
                                               "derived from " \o amount_var))
                 ELSE a
        IN IF /\ Contains(ExpressionText(node), "=")
              /\ Contains(SplitSecond(ExpressionText(node)), amount_var)
           THEN FoldLeft(perLocal, acc, node.local_variables_written)
           ELSE acc
  IN FoldLeft(backward, inputs2, withExpression)

\* Lines 156-172: the amount variable, a parameter or else a written local.
AmountVariable(c, f, amount_var) ==
  LET fn == c.functions[f]
      param == FirstMatch(LAMBDA q : IsAmountParameter(q, amount_var), fn.parameters)
      locals == Flatten([ i \in DOMAIN fn.nodes |-> fn.nodes[i].local_variables_written ])
  IN IF param # NoVar THEN param
     ELSE FirstMatch(LAMBDA v : v.name = amount_var, locals)

\* Lines 198-212: "balances" is listed whenever the contract declares it.
ListBalances(c, listed) ==
  IF "balances" \in Names(listed) THEN listed
  ELSE IF \E sv \in Range(c.state_variables) : sv.name = "balances"
  THEN Append(listed, Listed("balances"))
  ELSE listed

\* _find_state_variables.
find_state_variables(c, f, amount_var, listed) ==
  LET fn == c.functions[f]
      amount_var_obj == AmountVariable(c, f, amount_var)
      perNode(acc, node) ==
        LET byDependency(a, state_var) ==
              IF is_dependent(c, amount_var_obj, state_var, f)
              THEN AppendNew(a, Listed(state_var.name)) ELSE a
            byText(a, state_var) ==
              IF Contains(ExpressionText(node), state_var.name)
              THEN AppendNew(a, Listed(state_var.name)) ELSE a
            acc1 == FoldLeft(byDependency, acc,
                             node.state_variables_read \o node.state_variables_written)
        IN IF node.expression.class # "None" /\ Contains(ExpressionText(node), amount_var)
           THEN FoldLeft(byText, acc1, c.state_variables)
           ELSE acc1
      traced == IF amount_var_obj # NoVar THEN FoldLeft(perNode, listed, fn.nodes)
                ELSE listed
  IN ListBalances(c, traced)

\* _find_variable_modifications: for every listed name, the statements of
\* every function that write a state variable of that name.
find_variable_modifications(c, listed) ==
  LET ofNode(name, i, node) ==
        LET hits == SelectSeq(node.state_variables_written, LAMBDA v : v.name = name)
        IN [ k \in DOMAIN hits |->
               [function |-> c.functions[i].name, expression |-> ExpressionText(node)] ]
      ofFunction(name, i) ==
        Flatten([ j \in DOMAIN c.functions[i].nodes |->
                    ofNode(name, i, c.functions[i].nodes[j]) ])
  IN [ name \in Names(listed) |->
         Flatten([ i \in DOMAIN c.functions |-> ofFunction(name, i) ]) ]

\* _trace_cross_function_inputs: for every listed name, the modifications made
\* outside the target function whose text holds the name of a parameter of
\* the modifying function.
trace_cross_function_inputs(c, function_name, listed, modifications) ==
  LET input_params(m) ==
        LET g == TargetFunction(c, m.function)
            hits == SelectSeq(c.functions[g].parameters,
                              LAMBDA q : Contains(m.expression, q.name))
        IN [ k \in DOMAIN hits |-> [name |-> hits[k].name] ]
      kept(name) ==
        SelectSeq(modifications[name],
                  LAMBDA m : m.function # function_name /\ input_params(m) # <<>>)
  IN [ name \in Names(listed) |->
         [ k \in DOMAIN kept(name) |->
             [function |-> kept(name)[k].function,
              expression |-> kept(name)[k].expression,
              parameters |-> input_params(kept(name)[k])] ] ]

\* Lines 31-38: the result before the analysis.
TokenResult(a) ==
  [function |-> a.function_name, target_variable |-> a.amount_var,
   inputs |-> <<>>, state_variables |-> <<>>,
   variable_modifications |-> EmptyMap, cross_function_inputs |-> EmptyMap]

\* TokenFlowAnalyzer.analyze is called on a contract with a function name and
\* an amount variable name of the contract, or names it does not have.
InitToken ==
  /\ contract \in DOMAIN TokenContracts
  /\ args \in [function_name : FunctionNames(TC) \cup {"missing"},
               amount_var : VariableNames(TC) \cup {"missing"}]
  /\ set_order = "ascending"
  /\ pc = "token_analyze"
  /\ raised = "None"
  /\ source_func = 0 /\ sink_func = 0
  /\ source_var = NoVar /\ sink_var = NoVar
  /\ G = NoGraph /\ to_process = <<>> /\ processed = {}
  /\ taint_graph = NoGraph
  /\ sink_tainted = FALSE /\ taint_path = <<>> /\ searched = FALSE
  /\ result = TokenResult(args)
  /\ DepIdle

TokenUnchanged ==
  UNCHANGED << contract, args, set_order, source_func, sink_func, source_var,
               sink_var, G, to_process, processed, taint_graph, sink_tainted,
               taint_path, searched, depVars >>

\* Lines 40-48: the target function is looked up; ValueError when there is
\* none.
TokenResolve ==
  /\ pc = "token_analyze"
  /\ IF TargetFunction(TC, args.function_name) = 0
     THEN pc' = "token_raised" /\ raised' = "ValueError"
     ELSE pc' = "token_inputs" /\ UNCHANGED raised
  /\ UNCHANGED result
  /\ TokenUnchanged

\* Line 51.
TokenInputs ==
  /\ pc = "token_inputs"
  /\ result' = [result EXCEPT !.inputs =
       find_input_parameters(TC, TargetFunction(TC, args.function_name),
                             args.amount_var, @)]
  /\ pc' = "token_state"
  /\ UNCHANGED raised
  /\ TokenUnchanged

\* Line 54.
TokenStateVariables ==
  /\ pc = "token_state"
  /\ result' = [result EXCEPT !.state_variables =
       find_state_variables(TC, TargetFunction(TC, args.function_name),
                            args.amount_var, @)]
  /\ pc' = "token_modifications"
  /\ UNCHANGED raised
  /\ TokenUnchanged

\* Line 57.
TokenModifications ==
  /\ pc = "token_modifications"
  /\ result' = [result EXCEPT !.variable_modifications =
       find_variable_modifications(TC, result.state_variables)]
  /\ pc' = "token_trace"
  /\ UNCHANGED raised
  /\ TokenUnchanged

\* Lines 60-62: the cross-function inputs are traced and the result returned.
TokenTrace ==
  /\ pc = "token_trace"
  /\ result' = [result EXCEPT !.cross_function_inputs =
       trace_cross_function_inputs(TC, result.function, result.state_variables,
                                   result.variable_modifications)]
  /\ pc' = "token_done"
  /\ UNCHANGED raised
  /\ TokenUnchanged

NextToken ==
  \/ TokenResolve
  \/ TokenInputs
  \/ TokenStateVariables
  \/ TokenModifications
  \/ TokenTrace

SpecToken == InitToken /\ [][NextToken]_vars

(***************************************************************************)
(* Properties of TaintAnalyzer.                                            *)
(***************************************************************************)
\* The node keys of the seed and of the sink.
SeedKey == node_key(C, source_var, source_func)

SinkKey == node_key(C, sink_var, sink_func)

\* _build_taint_graph has returned: self.taint_graph is the built graph.
GraphBuilt == pc \in {"check", "report", "done"} \/ (pc = "raised" /\ raised # "ValueError")

\* _check_sink_tainted has returned or raised.
QueryAnswered == pc \in {"report", "done"} \/ (pc = "raised" /\ raised # "ValueError")

\* q is a path of the graph: consecutive keys are joined by an edge.
IsPath(graph, q) ==
  /\ q # <<>>
  /\ \A i \in 1..(Len(q) - 1) : <<q[i], q[i + 1]>> \in DOMAIN graph.edges

\* The pairs construction has discovered so far.
Discovered == processed \cup Range(to_process)

\* C1: whenever the sink's node is reachable from the seed's node along
\* directed edges, the reachability query returns (true, path) with path a
\* path of the graph from the seed's node to the sink's node that has the
\* fewest possible edges.
C1_ForwardReachability ==
  (QueryAnswered /\ SinkKey \in ReachableFrom(taint_graph, {SeedKey}))
  => /\ raised = "None"
     /\ sink_tainted
     /\ IsPath(taint_graph, taint_path)
     /\ taint_path[1] = SeedKey
     /\ taint_path[Len(taint_path)] = SinkKey
     /\ Len(taint_path) - 1 = Distance(taint_graph, SeedKey, SinkKey)

\* C2: when the sink's node is in the graph and no directed path leads from
\* the seed's node to it, the query returns (false, empty path) and raises
\* nothing.
C2_UnreachableIsNoError ==
  (/\ QueryAnswered
   /\ SinkKey \in DOMAIN taint_graph.nodes
   /\ SinkKey \notin ReachableFrom(taint_graph, {SeedKey}))
  => (raised = "None" /\ ~sink_tainted /\ taint_path = <<>>)

\* C3: when the sink's key is no node of the graph, the query returns
\* (false, []) without searching for a path, whether or not the source key is
\* a node.
C3_AbsentSink ==
  (QueryAnswered /\ SinkKey \notin DOMAIN taint_graph.nodes)
  => (raised = "None" /\ ~sink_tainted /\ taint_path = <<>> /\ ~searched)

\* Scenario 4 has run: source amount@withdraw, sink owner@withdraw, the sink
\* key and the key searched from both absent from the graph.
C3_Witness ==
  /\ pc = "done"
  /\ contract = 1
  /\ source_var.name = "amount" /\ sink_var.name = "owner"
  /\ SinkKey \notin DOMAIN taint_graph.nodes
  /\ SourceKey(C, source_var) \notin DOMAIN taint_graph.nodes
  /\ result.vulnerable = FALSE /\ result.taint_path = <<>>

\* C4: the graph _build_taint_graph returns has a node under the key of the
\* seed, and the listing of tainted variables has an entry with the seed's
\* name and its function's name.
C4_Reflexivity ==
  GraphBuilt =>
    /\ SeedKey \in DOMAIN taint_graph.nodes
    /\ \E e \in Range(get_tainted_variables(C, taint_graph)) :
         /\ e.name = source_var.name
         /\ e.function = C.functions[source_func].name

\* A graph has been built from a seed that influences nothing: the seed is
\* its only node.
C4_Witness ==
  /\ pc = "done"
  /\ DOMAIN taint_graph.nodes = {SeedKey}
  /\ taint_graph.edges = EmptyMap
  /\ Len(result.tainted_variables) = 1

\* C5: graph construction terminates: once the loop is entered the worklist
\* becomes empty and the graph is returned.
C5_Termination == (pc = "loop") ~> (pc = "check")

\* The graph of "A calls B calls A" has been built, both parameters processed.
C5_Witness ==
  /\ pc = "check"
  /\ contract = FirstRing + 1
  /\ Cardinality(processed) = 2
  /\ to_process = <<>>

\* C6: every node of the built graph is reachable from the seed's node along
\* directed edges.
C6_AllReachableFromSeed ==
  GraphBuilt => DOMAIN taint_graph.nodes \subseteq ReachableFrom(taint_graph, {SeedKey})

\* C7: two discovered (variable, function) pairs have the same node key if
\* and only if they are the same variable and the same function.
C7_KeysCollisionFree ==
  \A a \in Discovered, b \in Discovered :
    (node_key(C, a[1], a[2]) = node_key(C, b[1], b[2])) <=> (a = b)

(***************************************************************************)
(* Properties of find_dependency_paths.                                    *)
(***************************************************************************)
\* find_dependency_paths has returned for target and input_set.
Queried == dep_pc = "queried"

\* p is ordered input to target over the recorded direct dependencies: it
\* starts at an input, ends at the target, each element is a direct
\* dependency of the next, none occurs twice, and only the first is an input.
WellFormedPath(p) ==
  /\ Len(p) >= 1
  /\ p[1] \in input_set
  /\ p[Len(p)] = target
  /\ \A k \in 1..(Len(p) - 1) :
       p[k + 1] \in DOMAIN direct_dep /\ p[k] \in direct_dep[p[k + 1]]
  /\ \A j \in DOMAIN p, k \in DOMAIN p : p[j] = p[k] => j = k
  /\ \A k \in 2..Len(p) : p[k] \notin input_set

\* The sequences of n distinct elements of V.
RECURSIVE SimpleSequences(_, _)
SimpleSequences(V, n) ==
  IF n = 0 THEN { <<>> }
  ELSE UNION { { Append(q, v) : v \in V \ Range(q) } : q \in SimpleSequences(V, n - 1) }

\* Every well-formed path over the unit's variables, enumerated without the
\* search.
AllWellFormedPaths ==
  { p \in UNION { SimpleSequences(UnitVariables(unit), n)
                  : n \in 1..Cardinality(UnitVariables(unit)) } : WellFormedPath(p) }

\* C8: every path find_dependency_paths returns is well formed, and a target
\* that is itself an input gives the one-element path alone.
C8_PathsWellFormed ==
  Queried =>
    /\ \A i \in DOMAIN paths : WellFormedPath(paths[i])
    /\ target \in input_set => paths = << <<target>> >>

\* A query over a cyclic map, with two inputs, that returned a path of three
\* variables.
C8_Witness ==
  /\ Queried
  /\ Cardinality(input_set) >= 2
  /\ \E v \in DOMAIN direct_dep : v \in direct_dep[v]
  /\ \E i \in DOMAIN paths : Len(paths[i]) >= 3

\* C9: find_dependency_paths returns every well-formed path, the non-shortest
\* and those through a shared intermediate variable included, each once.
C9_PathsComplete ==
  Queried =>
    /\ Range(paths) = AllWellFormedPaths
    /\ Cardinality(Range(paths)) = Len(paths)

\* The diamond: t is reached from i through m by way of a and by way of b,
\* and from j the same, four paths in all.
C9_Witness ==
  /\ Queried
  /\ unit = DiamondIR
  /\ target = non_ssa(LocalIR("t", 1))
  /\ input_set = { non_ssa(LocalIR("i", 1)), non_ssa(LocalIR("j", 1)) }
  /\ Len(paths) = 4
  /\ \E i \in DOMAIN paths, j \in DOMAIN paths :
       /\ paths[i][1] = paths[j][1]
       /\ paths[i][2] = paths[j][2]
       /\ paths[i][3] # paths[j][3]

\* Scenario 3 has been queried for p with the input set {x}.
Scenario3Queried ==
  /\ Queried
  /\ unit = Scenario3IR
  /\ target = non_ssa(LocalIR("p", 1))
  /\ input_set = { non_ssa(LocalIR("x", 1)) }

\* C10: in Scenario 3 the query for p with input set {x} returns the path
\* [x, p] and no other.
C10_Scenario3 ==
  Scenario3Queried =>
    paths = << << non_ssa(LocalIR("x", 1)), non_ssa(LocalIR("p", 1)) >> >>

\* Scenario 3 queried, the map holding x among the dependencies of p.
C10_Witness ==
  /\ Scenario3Queried
  /\ non_ssa(LocalIR("x", 1)) \in direct_dep[non_ssa(LocalIR("p", 1))]
  /\ Len(paths) = 1

(***************************************************************************)
(* Properties of compute_direct_dependencies.                              *)
(***************************************************************************)
\* The operation the next ExtractIR step extracts.
CurrentIR == AllIrs(unit)[next_ir]

\* An operation is about to be extracted.
Extracting == dep_pc = "extract" /\ next_ir <= Len(AllIrs(unit))

\* Every operand the operation reads is a literal.
ReadsOnlyLiterals(ir) ==
  ReadsOf(ir) # <<>> /\ \A r \in Range(ReadsOf(ir)) : r.class = "Constant"

\* The (target, dependency) edges of a map.
EdgesOf(dd) ==
  { e \in (DOMAIN dd) \X UNION { dd[j] : j \in DOMAIN dd } : e[2] \in dd[e[1]] }

\* C11: after every step of the extraction no dependency set of the map holds
\* a constant, and an operation that reads only literals leaves the map as it
\* was.
C11_NoConstants ==
  [][ /\ \A k \in DOMAIN direct_dep' : \A r \in direct_dep'[k] : r.class # "Constant"
      /\ (Extracting /\ ReadsOnlyLiterals(CurrentIR)) => direct_dep' = direct_dep
    ]_vars

\* c = 5; d = c + 7 has been extracted: d depends on c alone and c on nothing.
C11_Witness ==
  /\ dep_pc = "ready"
  /\ unit = ConstantsIR
  /\ DOMAIN direct_dep = { non_ssa(LocalIR("d", 1)) }
  /\ direct_dep[non_ssa(LocalIR("d", 1))] = { non_ssa(LocalIR("c", 1)) }

\* The sequence with x put after its first i elements.
InsertAt(seq, i, x) == SubSeq(seq, 1, i) \o <<x>> \o SubSeq(seq, i + 1, Len(seq))

\* The units obtained from u by adding one statement to one of its functions,
\* at any position: an assignment between generated variables, or a repetition
\* of an operation the unit already has.
UnitsWithOneMore(u) ==
  UNION { { [u EXCEPT ![f].irs = InsertAt(@, i, ir)]
            : i \in 0..Len(u[f].irs), ir \in GeneratedOperations \cup Range(AllIrs(u)) }
          : f \in DOMAIN u }

\* C12: an extraction step never removes an edge of the map, and the map of a
\* unit is contained, edge for edge, in the map of every unit that has one
\* statement more.
C12_Monotone ==
  [][ /\ EdgesOf(direct_dep) \subseteq EdgesOf(direct_dep')
      /\ dep_pc' = "ready" =>
           /\ direct_dep' = compute_direct_dependencies(unit)
           /\ \A u \in UnitsWithOneMore(unit) :
                EdgesOf(direct_dep') \subseteq EdgesOf(compute_direct_dependencies(u))
    ]_vars

\* The diamond has been extracted: t has two dependencies, and a unit with
\* one statement more has an edge the diamond's map has not.
C12_Witness ==
  /\ dep_pc = "ready"
  /\ unit = DiamondIR
  /\ Cardinality(direct_dep[non_ssa(LocalIR("t", 1))]) = 2
  /\ \E u \in UnitsWithOneMore(unit) :
       EdgesOf(compute_direct_dependencies(u)) \ EdgesOf(direct_dep) # {}

(***************************************************************************)
(* More properties of TaintAnalyzer.                                       *)
(***************************************************************************)
\* The orders in which a run may iterate a set.
SetOrders == {"ascending", "descending"}

\* C13: the graph built has the node set and the edge set of the graph any
\* other build from the same contract and seed gives, whatever order that
\* build iterates its sets in.
C13_Deterministic ==
  GraphBuilt =>
    \A order \in SetOrders :
      LET again == build_taint_graph(C, source_func, source_var, order)
      IN /\ DOMAIN again.nodes = DOMAIN taint_graph.nodes
         /\ DOMAIN again.edges = DOMAIN taint_graph.edges

\* A graph built from the parameter p of callee, whose call passes a + b: the
\* nodes of a and b were added in one order by this build and in the other
\* order by a build that iterates descending.
C13_Witness ==
  /\ pc = "check"
  /\ C = TwoArguments
  /\ source_var.name = "p"
  /\ {"a@caller", "b@caller"} \subseteq DOMAIN taint_graph.nodes
  /\ \E order \in SetOrders :
       build_taint_graph(C, source_func, source_var, order).order # taint_graph.order

\* One of the four names analyze is called with resolves to nothing.
Unresolved ==
  \/ args.source_function \notin FunctionNames(C)
  \/ args.sink_function \notin FunctionNames(C)
  \/ find_variable_by_name(C, find_function_by_name(C, args.source_function),
                           args.source_variable) = NoVar
  \/ find_variable_by_name(C, find_function_by_name(C, args.sink_function),
                           args.sink_variable) = NoVar

\* C14: analyze raises ValueError exactly when one of the four names does
\* not resolve, and raising it leaves the stored graph as it was, builds no
\* graph and fills in no result.
C14_NotFound ==
  [][ pc = "analyze" =>
        /\ Unresolved <=> (pc' = "raised" /\ raised' = "ValueError")
        /\ ~Unresolved => pc' = "build"
        /\ pc' = "raised" =>
             /\ taint_graph' = taint_graph
             /\ G' = NoGraph /\ to_process' = <<>> /\ processed' = {}
             /\ result'.tainted_variables = <<>> /\ result'.taint_path = <<>>
    ]_vars

\* analyze has raised on its fourth lookup, the sink variable, while the
\* graph of an earlier analysis is stored.
C14_Witness ==
  /\ pc = "raised" /\ raised = "ValueError"
  /\ taint_graph # NoGraph
  /\ args.source_function \in FunctionNames(C)
  /\ args.sink_function \in FunctionNames(C)
  /\ find_variable_by_name(C, find_function_by_name(C, args.source_function),
                           args.source_variable) # NoVar
  /\ args.sink_variable = "missing"

\* The pair the next BuildProcess step processes, and its node key.
Processing == ProcessEnabled

CurrentVar == to_process[1][1]

CurrentFunc == to_process[1][2]

CurrentKey == node_key(C, CurrentVar, CurrentFunc)

\* The variables a statement writes.
Written(node) == Range(node.local_variables_written \o node.state_variables_written)

\* The Program Facade reports that w depends on v in function f.
Reports(w, v, f) == w = v \/ <<w, v, f>> \in C.dependencies

\* After the step, (w, f) is a node with an edge from the processed pair's
\* node, and it is processed or waits in the worklist.
GainsEdgeTo(w, f) ==
  /\ node_key(C, w, f) \in DOMAIN G'.nodes
  /\ <<CurrentKey, node_key(C, w, f)>> \in DOMAIN G'.edges
  /\ <<w, f>> \in processed' \cup Range(to_process')

\* C15: processing (v, f) gives every variable written by a statement of f
\* that the facade reports dependent on v a node and an edge from (v, f); and
\* the graph of Scenario 1 seeded at amount has the edge amount -> local and
\* a node of balances reachable from local.
C15_PreciseTrigger ==
  [][ /\ Processing =>
           \A node \in Range(C.functions[CurrentFunc].nodes) :
             \A w \in Written(node) :
               Reports(w, CurrentVar, CurrentFunc) => GainsEdgeTo(w, CurrentFunc)
      /\ (pc' = "check" /\ C = Scenario1 /\ source_var.name = "amount") =>
           /\ <<"amount@withdraw", "local@withdraw">> \in DOMAIN taint_graph'.edges
           /\ "balances@withdraw" \in ReachableFrom(taint_graph', {"local@withdraw"})
    ]_vars

\* Scenario 1 seeded at amount: balances, written by a statement that does
\* not mention amount, has an edge from amount.
C15_Witness ==
  /\ pc = "check"
  /\ C = Scenario1
  /\ source_var.name = "amount"
  /\ <<"amount@withdraw", "balances@withdraw">> \in DOMAIN taint_graph.edges
  /\ <<"local@withdraw", "balances@withdraw">> \in DOMAIN taint_graph.edges

\* The pairs (a, c) the call-argument rule finds for the processed pair: the
\* processed variable is a parameter of its function, c has a statement that
\* calls the function with an argument at the parameter's position, and a is
\* a variable of that argument.
ArgumentPairs ==
  LET f == C.functions[CurrentFunc]
      positions == { i \in DOMAIN f.parameters : f.parameters[i] = CurrentVar }
  IN IF positions = {} THEN {}
     ELSE { <<a, c>> \in VariablesOf(C) \X DOMAIN C.functions :
              \E node \in Range(C.functions[c].nodes) :
                /\ CurrentFunc \in Range(node.internal_calls)
                /\ node.expression.has_arguments
                /\ Min(positions) <= Len(node.expression.arguments)
                /\ a \in get_expression_variables(
                           node.expression.arguments[Min(positions)]) }

ArgumentKeys == { node_key(C, pair[1], pair[2]) : pair \in ArgumentPairs }

\* The functions the persistent-state rule carries the processed pair to:
\* those other than its own with a statement that reads the variable, when
\* the variable is a state variable; none otherwise.
StateTargets ==
  IF CurrentVar.kind = "state"
  THEN { g \in DOMAIN C.functions \ {CurrentFunc} :
           \E node \in Range(C.functions[g].nodes) :
             CurrentVar \in Range(node.state_variables_read) }
  ELSE {}

\* The keys of the variables the statements of the processed pair's function
\* write.
WrittenKeys ==
  { node_key(C, w, CurrentFunc) :
      w \in UNION { Written(node) : node \in Range(C.functions[CurrentFunc].nodes) } }

\* The edges the step adds.
NewEdges == DOMAIN G'.edges \ DOMAIN G.edges

\* C16: processing a state variable v in f gives every other function g that
\* reads v the node (v, g), kept for processing, and the edge (v, f) -> (v, g);
\* every other new edge that leaves (v, f) for another node goes to a variable
\* written in f, so none goes to f itself, to a function that does not read
\* v, or anywhere when v is no state variable.  Nothing discovered is dropped
\* before the loop ends with the worklist empty.  In Scenario 2 the edge
\* (rate, setRate) -> (rate, compute) exists and (rate, compute) is processed.
C16_StatePropagation ==
  [][ /\ Processing =>
           /\ \A g \in StateTargets : GainsEdgeTo(CurrentVar, g)
           /\ \A e \in NewEdges :
                e[1] = CurrentKey =>
                  e[2] \in WrittenKeys \cup { node_key(C, CurrentVar, g) : g \in StateTargets }
                           \cup (ArgumentKeys \cap {CurrentKey})
      /\ pc = "loop" =>
           /\ pc' = "loop" => Discovered \subseteq processed' \cup Range(to_process')
           /\ pc' = "check" => to_process = <<>>
      /\ (pc' = "check" /\ C = Scenario2 /\ source_func = 1) =>
           /\ <<"rate@setRate", "rate@compute">> \in DOMAIN taint_graph'.edges
           /\ \E pair \in processed : pair[1].name = "rate" /\ pair[2] = 2
    ]_vars

\* Scenario 2 seeded at r of setRate: rate was carried to compute, and out,
\* which compute writes from rate, followed.
C16_Witness ==
  /\ pc = "check"
  /\ C = Scenario2
  /\ source_var.name = "r"
  /\ <<"rate@setRate", "rate@compute">> \in DOMAIN taint_graph.edges
  /\ <<"rate@compute", "out@compute">> \in DOMAIN taint_graph.edges

\* The argument lists of the calls of the function named name inside the
\* expression e, at any depth.
RECURSIVE CallSites(_, _)
CallSites(e, name) ==
  (IF e.class = "CallExpression" /\ e.sub[1].text = name THEN {e.arguments} ELSE {})
  \cup UNION { CallSites(e.sub[i], name) : i \in DOMAIN e.sub }
  \cup UNION { CallSites(e.arguments[i], name) : i \in DOMAIN e.arguments }

\* The pairs (a, c) of the call sites of the processed parameter's function:
\* c has a statement that calls the function, and a is a variable of the
\* argument that call passes at the parameter's position.
CallSitePairs ==
  LET f == C.functions[CurrentFunc]
      positions == { i \in DOMAIN f.parameters : f.parameters[i] = CurrentVar }
  IN IF positions = {} THEN {}
     ELSE { <<a, c>> \in VariablesOf(C) \X DOMAIN C.functions :
              \E node \in Range(C.functions[c].nodes) :
                /\ CurrentFunc \in Range(node.internal_calls)
                /\ \E arguments \in CallSites(node.expression, f.name) :
                     /\ Min(positions) <= Len(arguments)
                     /\ a \in get_expression_variables(arguments[Min(positions)]) }

\* C17: processing a parameter p of f gives every variable a of the argument
\* at p's position, at every call site of f in any function c, the node
\* (a, c) and the edge (a, c) -> (p, f); and no other new edge enters (p, f)
\* from another node, so none comes from an argument at another position.
C17_CallArgument ==
  [][ Processing =>
        /\ \A pair \in CallSitePairs :
             /\ node_key(C, pair[1], pair[2]) \in DOMAIN G'.nodes
             /\ <<node_key(C, pair[1], pair[2]), CurrentKey>> \in DOMAIN G'.edges
        /\ \A e \in NewEdges :
             (e[2] = CurrentKey /\ e[1] # CurrentKey) =>
               e[1] \in { node_key(C, pair[1], pair[2]) : pair \in CallSitePairs }
    ]_vars

\* The variables a statement reads.
ReadSet(node) == Range(node.local_variables_read \o node.state_variables_read)

\* C18: processing (v, f), every statement of f that references v gives each
\* variable it writes that is not in its read set a node and an edge from
\* (v, f), whether or not the facade reports a dependency; and a written
\* variable that is in the read set gets no new edge unless the facade
\* reports it dependent on v.
C18_HeuristicTrigger ==
  [][ Processing =>
        \A node \in Range(C.functions[CurrentFunc].nodes) :
          CurrentVar \in get_expression_variables(node.expression) =>
            \A w \in Written(node) :
              /\ w \notin ReadSet(node) => GainsEdgeTo(w, CurrentFunc)
              /\ (w \in ReadSet(node) /\ ~Reports(w, CurrentVar, CurrentFunc)) =>
                   <<CurrentKey, node_key(C, w, CurrentFunc)>> \notin NewEdges
    ]_vars

\* The pairs the step appends to the worklist.
Appended ==
  IF to_process = <<>> THEN <<>>
  ELSE SubSeq(to_process', Len(to_process), Len(to_process'))

\* C19: in the loop the processed set only grows; the rules are applied to a
\* pair only while it is not processed, and applying them puts it in the
\* processed set, so they are applied to it at most once; and every pair
\* appended to the worklist is outside the processed set when it is appended.
C19_AtMostOnce ==
  [][ (pc = "loop" /\ pc' = "loop") =>
        /\ processed \subseteq processed'
        /\ (G' # G \/ processed' # processed) =>
             /\ to_process[1] \notin processed
             /\ processed' = processed \cup {to_process[1]}
        /\ \A i \in DOMAIN Appended : Appended[i] \notin processed'
    ]_vars

\* A pair waits in the worklist a second time after it was processed: the
\* loop is about to skip it.
C19_Witness ==
  /\ pc = "loop"
  /\ to_process # <<>>
  /\ to_process[1] \in processed

\* The key is a node of the graph created by G.add_node with its variable,
\* function and kind.
CreatedNode(graph, key) ==
  /\ key \in DOMAIN graph.nodes
  /\ graph.nodes[key].var # NoVar
  /\ graph.nodes[key].function # 0
  /\ graph.nodes[key].var_type \in {"state", "local", "parameter", "unknown"}

\* C20: in every state of the construction, and in the graph it returns,
\* both endpoints of every edge are nodes created with their attributes.
C20_EdgeEndpoints ==
  \A graph \in {G, taint_graph} :
    \A e \in DOMAIN graph.edges : CreatedNode(graph, e[1]) /\ CreatedNode(graph, e[2])

\* The construction is under way with an edge inside a function and an edge
\* from a caller's argument in the graph.
C20_Witness ==
  /\ pc = "loop"
  /\ \E e \in DOMAIN G.edges : G.nodes[e[1]].function = G.nodes[e[2]].function
  /\ \E e \in DOMAIN G.edges : G.nodes[e[1]].function # G.nodes[e[2]].function

\* The justification a statement of the processed pair's function gives an
\* edge: the statement's text and its first line.
Justification(node) == [expression |-> node.expression.text, line |-> FirstLine(node)]

\* C21: an edge recorded for a statement is in the graph with that
\* statement's justification, also when another statement justifies an edge
\* between the same two nodes; and no edge in the graph, with its
\* justification, is missing from the graph after a step of the construction
\* or from the graph returned.
C21_EdgesNeverLost ==
  [][ /\ Processing =>
           \A node \in Range(C.functions[CurrentFunc].nodes) :
             \A w \in Written(node) :
               Reports(w, CurrentVar, CurrentFunc) =>
                 /\ <<CurrentKey, node_key(C, w, CurrentFunc)>> \in DOMAIN G'.edges
                 /\ G'.edges[<<CurrentKey, node_key(C, w, CurrentFunc)>>]
                      = Justification(node)
      /\ pc = "loop" =>
           \A e \in DOMAIN G.edges :
             /\ e \in DOMAIN G'.edges /\ G'.edges[e] = G.edges[e]
             /\ pc' = "check" =>
                  e \in DOMAIN taint_graph'.edges /\ taint_graph'.edges[e] = G.edges[e]
    ]_vars

\* C22: through the construction, and in the graph returned, a node of the
\* graph keeps the variable and the function it was created with; only its
\* kind may change.
C22_NodeAttributesFixed ==
  [][ pc = "loop" =>
        \A key \in DOMAIN G.nodes :
          /\ key \in DOMAIN G'.nodes
          /\ G'.nodes[key].var = G.nodes[key].var
          /\ G'.nodes[key].function = G.nodes[key].function
          /\ pc' = "check" =>
               /\ taint_graph'.nodes[key].var = G.nodes[key].var
               /\ taint_graph'.nodes[key].function = G.nodes[key].function
    ]_vars

(***************************************************************************)
(* More properties of compute_direct_dependencies.                         *)
(***************************************************************************)
\* The operation has a result the extractor records dependencies for: it is
\* an OperationWithLValue with an lvalue that is no storage pointer.
Recorded(ir) == ir.with_lvalue /\ ir.lvalue # NoIR /\ ~ir.lvalue.is_storage

\* The operands the read-set rule names for an operation.
RuleOperands(ir) ==
  CASE ir.class = "Index" -> {ir.variable_left}
    [] ir.class = "InternalCall" /\ ir.function -> Range(ir.return_values_ssa)
    [] OTHER -> Range(ir.read)

\* The dependencies the rule gives the operation: its operands without the
\* constants, in their non-SSA version.
RuleDependencies(ir) ==
  { non_ssa(r) : r \in { x \in RuleOperands(ir) : x.class # "Constant" } }

\* C23: extracting an operation whose result is recorded adds to the map
\* exactly the edges from its target to the base variable of an indexed
\* access, to the callee's return values of a resolved internal call, and to
\* the declared read operands otherwise, constants left out; so the index
\* operand and the arguments of a resolved call give no edge.  An operation
\* whose result is not recorded adds nothing.
C23_ReadSetRule ==
  [][ Extracting =>
        /\ EdgesOf(direct_dep) \subseteq EdgesOf(direct_dep')
        /\ EdgesOf(direct_dep') \ EdgesOf(direct_dep) \subseteq
             (IF Recorded(CurrentIR)
              THEN {TargetOf(CurrentIR)} \X RuleDependencies(CurrentIR) ELSE {})
        /\ Recorded(CurrentIR) =>
             {TargetOf(CurrentIR)} \X RuleDependencies(CurrentIR)
               \subseteq EdgesOf(direct_dep')
    ]_vars

\* The reader unit has been extracted: a depends on a and not on the index
\* i, x on the reference, and the storage pointer s on nothing.
C23_Witness ==
  /\ dep_pc = "ready"
  /\ unit = ReadSetIR
  /\ direct_dep[non_ssa(LocalIR("a", 1))] = { non_ssa(LocalIR("a", 1)) }
  /\ non_ssa(LocalIR("x", 1)) \in DOMAIN direct_dep
  /\ non_ssa(StorageIR("s", 1)) \notin DOMAIN direct_dep

\* The caller unit has been extracted: the resolved call's result depends on
\* ret and not on the argument x, the unresolved call's result on x.
CallReadExtracted ==
  /\ dep_pc = "ready"
  /\ unit = CallReadIR
  /\ direct_dep[non_ssa(TemporaryIR("TMP_0", 0))] = { non_ssa(LocalIR("ret", 1)) }
  /\ direct_dep[non_ssa(TemporaryIR("TMP_1", 0))] = { non_ssa(LocalIR("x", 1)) }

\* An alias: a reference variable, in either version.
IsReference(v) == v.class \in {"ReferenceVariable", "ReferenceVariableSSA"}

\* What the unit's operations say a variable points to, NoIR when nothing.
PointsTo(u, v) ==
  LET defs == { ir \in Range(AllIrs(u)) : ir.lvalue = v /\ ir.points_to # NoIR }
  IN IF defs = {} THEN NoIR ELSE (CHOOSE ir \in defs : TRUE).points_to

\* The variable an alias stands for in the end: references are followed
\* until a variable that is none.
RECURSIVE AliasedTarget(_, _)
AliasedTarget(u, v) ==
  IF IsReference(v) /\ PointsTo(u, v) # NoIR THEN AliasedTarget(u, PointsTo(u, v))
  ELSE v

\* C24: the dependencies of an operation are recorded on the non-SSA form of
\* the variable its lvalue stands for, references followed to their end, and
\* no key of the map is a reference variable; a[i][j] = x records x among
\* the dependencies of a.
C24_TargetResolution ==
  [][ /\ (Extracting /\ Recorded(CurrentIR) /\ RuleDependencies(CurrentIR) # {}) =>
           LET lval == non_ssa(AliasedTarget(unit, CurrentIR.lvalue))
           IN /\ lval \in DOMAIN direct_dep'
              /\ RuleDependencies(CurrentIR) \subseteq direct_dep'[lval]
      /\ \A lval \in DOMAIN direct_dep' : ~IsReference(lval)
    ]_vars

(***************************************************************************)
(* More properties of find_dependency_paths.                               *)
(***************************************************************************)
\* The variables of the calls of dfs in progress: the current branch.
Branch == [ i \in DOMAIN stack |-> stack[i].current ]

\* No variable is on the branch twice, every call's visited set is the
\* branch down to it, and the calls nest no deeper than the unit has
\* variables (and one more for a target that is none of them).
BranchSimple ==
  /\ \A i \in DOMAIN stack, j \in DOMAIN stack : Branch[i] = Branch[j] => i = j
  /\ \A i \in DOMAIN stack : stack[i].visited = { Branch[j] : j \in 1..i }
  /\ Len(stack) <= Cardinality(UnitVariables(unit)) + 1
  /\ Len(stack) < RecursionLimit

\* C25: find_dependency_paths terminates on every map, those with
\* self-dependencies and longer cycles included: a call of it returns, and
\* while it runs dfs is never called on a variable that is on the current
\* branch already.
C25_SearchTerminates ==
  /\ []BranchSimple
  /\ (dep_pc = "searching") ~> (dep_pc = "queried")

\* A query over a map with a self-dependency and a cycle of two variables has
\* returned, with the paths the search finds.
C25_Witness ==
  /\ dep_pc = "queried"
  /\ \E a \in DOMAIN direct_dep : a \in direct_dep[a]
  /\ \E a \in DOMAIN direct_dep, b \in DOMAIN direct_dep :
       a # b /\ a \in direct_dep[b] /\ b \in direct_dep[a]
  /\ paths # <<>>
  /\ paths = find_dependency_paths(target, direct_dep, input_set)

\* C26: whatever calls of find_dependency_paths were made and however far
\* the current one has got, the map has the keys and the dependency sets
\* compute_direct_dependencies returned.
C26_MapReadOnly == direct_dep = compute_direct_dependencies(unit)

\* A query with no inputs has returned for a target whose dependencies include
\* a variable that has no entry in the map: the search called dfs on it.
C26_Witness ==
  /\ dep_pc = "queried"
  /\ input_set = {}
  /\ target \in DOMAIN direct_dep
  /\ \E r \in direct_dep[target] : r # target /\ r \notin DOMAIN direct_dep
  /\ paths = <<>>

(***************************************************************************)
(* Properties of the name resolvers.                                       *)
(***************************************************************************)
\* The parameters, the locals and the state variables of function f that a
\* lookup of name n may find.
ParametersNamed(f, n) == { v \in Range(C.functions[f].parameters) : v.name = n }

LocalsNamed(f, n) ==
  { v \in UNION { Range(node.local_variables_written) \cup Range(node.local_variables_read)
                   : node \in Range(C.functions[f].nodes) } : v.name = n }

StatesNamed(f, n) ==
  { v \in UNION { Range(node.state_variables_read) \cup Range(node.state_variables_written)
                   : node \in Range(C.functions[f].nodes) } : v.name = n }

\* v is what the resolution order gives for name n in function f: a
\* parameter named n if there is one, otherwise a local named n, otherwise a
\* state variable named n, otherwise nothing.
ResolvedInOrder(v, f, n) ==
  IF ParametersNamed(f, n) # {} THEN v \in ParametersNamed(f, n)
  ELSE IF LocalsNamed(f, n) # {} THEN v \in LocalsNamed(f, n)
  ELSE IF StatesNamed(f, n) # {} THEN v \in StatesNamed(f, n)
  ELSE v = NoVar

\* C27: the two variables analyze looks up are what the resolution order
\* gives, each named exactly as asked; and when both functions are found,
\* analyze raises exactly when the order gives nothing for one of the names.
C27_ResolutionOrder ==
  [][ (pc = "analyze" /\ args.source_function \in FunctionNames(C)
                      /\ args.sink_function \in FunctionNames(C)) =>
        LET sf == find_function_by_name(C, args.source_function)
            kf == find_function_by_name(C, args.sink_function)
        IN /\ pc' = "build" =>
                /\ ResolvedInOrder(source_var', sf, args.source_variable)
                /\ ResolvedInOrder(sink_var', kf, args.sink_variable)
                /\ source_var'.name = args.source_variable
                /\ sink_var'.name = args.sink_variable
           /\ pc' = "raised" =>
                \/ ResolvedInOrder(NoVar, sf, args.source_variable)
                \/ ResolvedInOrder(NoVar, kf, args.sink_variable)
    ]_vars

(***************************************************************************)
(* The construction in other orders.                                       *)
(***************************************************************************)
Reverse(seq) == [ i \in DOMAIN seq |-> seq[Len(seq) + 1 - i] ]

\* The handle of a variable and the expression of a statement when the n
\* functions of the contract are listed last to first.
MirrorVar(v, n) == IF v.function = 0 THEN v ELSE [v EXCEPT !.function = n + 1 - @]

RECURSIVE MirrorExpression(_, _)
MirrorExpression(e, n) ==
  [e EXCEPT !.value = MirrorVar(@, n),
            !.sub = [ i \in DOMAIN e.sub |-> MirrorExpression(e.sub[i], n) ],
            !.arguments = [ i \in DOMAIN e.arguments |->
                              MirrorExpression(e.arguments[i], n) ]]

MirrorVars(seq, n) == [ i \in DOMAIN seq |-> MirrorVar(seq[i], n) ]

MirrorNode(node, n) ==
  Node(MirrorExpression(node.expression, n),
       MirrorVars(node.local_variables_written, n),
       MirrorVars(node.local_variables_read, n),
       MirrorVars(node.state_variables_written, n),
       MirrorVars(node.state_variables_read, n),
       [ i \in DOMAIN node.internal_calls |-> n + 1 - node.internal_calls[i] ],
       node.line)

\* The contract with its functions listed last to first and the statements
\* of every function listed last to first.
Mirror(c) ==
  LET n == Len(c.functions)
  IN Contract(
       [ j \in 1..n |->
           LET fn == c.functions[n + 1 - j]
           IN Function(fn.name, MirrorVars(fn.parameters, n),
                       Reverse([ i \in DOMAIN fn.nodes |-> MirrorNode(fn.nodes[i], n) ])) ],
       { << MirrorVar(d[1], n), MirrorVar(d[2], n), n + 1 - d[3] >> : d \in c.dependencies })

\* The contract with the statements of every function listed last to first.
ReverseStatements(c) ==
  Contract([ j \in DOMAIN c.functions |->
               Function(c.functions[j].name, c.functions[j].parameters,
                        Reverse(c.functions[j].nodes)) ],
           c.dependencies)

\* The node set and the edge set of a graph.
Shape(graph) == [nodes |-> DOMAIN graph.nodes, edges |-> DOMAIN graph.edges]

\* The sequence with its i-th element moved to the front.
MoveToFront(seq, i) ==
  <<seq[i]>> \o SubSeq(seq, 1, i - 1) \o SubSeq(seq, i + 1, Len(seq))

\* The shapes of the graphs the loop of _build_taint_graph ends with when each
\* iteration takes any pending pair instead of the first.
RECURSIVE AnyOrderShapes(_, _, _, _, _)
AnyOrderShapes(c, G0, queue, done, order) ==
  IF queue = <<>> THEN { Shape(G0) }
  ELSE UNION { LET q == MoveToFront(queue, i)
               IN IF q[1] \in done
                  THEN AnyOrderShapes(c, G0, Tail(q), done, order)
                  ELSE LET S == process_pair(c, G0, q, done, order)
                       IN AnyOrderShapes(c, S.G, S.to_process, S.processed, order)
               : i \in DOMAIN queue }

\* The shapes any order gives for contract c seeded at (var, func).
ShapesFrom(c, func, var, order) ==
  AnyOrderShapes(c, SeedGraph(c, func, var), << <<var, func>> >>, {}, order)

\* C28: the graph returned has the node set and the edge set that every
\* other order of taking pairs from the worklist gives, with the sets
\* iterated in either order, the statements last to first, or the functions
\* and the statements last to first.
C28_OrderIndependent ==
  [][ (pc = "loop" /\ pc' = "check") =>
        \A order \in SetOrders :
          LET n == Len(C.functions)
          IN ShapesFrom(C, source_func, source_var, order)
             \cup ShapesFrom(ReverseStatements(C), source_func, source_var, order)
             \cup ShapesFrom(Mirror(C), n + 1 - source_func, MirrorVar(source_var, n), order)
             = { Shape(taint_graph') }
    ]_vars

\* Scenario 1 seeded at amount has been built: local and balances waited in
\* the worklist together, and the graph has the edge to balances from both
\* amount and local.
C28_Witness ==
  /\ pc = "check"
  /\ C = Scenario1
  /\ source_var.name = "amount"
  /\ Cardinality(processed) = 3
  /\ {<<"amount@withdraw", "balances@withdraw">>, <<"local@withdraw", "balances@withdraw">>}
       \subseteq DOMAIN taint_graph.edges

\* C29: no edge of the graph under construction, or of the graph the
\* construction returned, leads from a node to that same node.
C29_NoSelfLoops ==
  /\ \A e \in DOMAIN G.edges : e[1] # e[2]
  /\ GraphBuilt => \A e \in DOMAIN taint_graph.edges : e[1] # e[2]

(***************************************************************************)
(* Properties of TokenFlowAnalyzer.                                        *)
(***************************************************************************)
\* The target function of the token-flow analysis.
TokenTarget == TargetFunction(TC, args.function_name)

\* The amount variable depends, by the facade's dependency check in the
\* target function, on a state variable of the contract that has this name.
AmountDependsOn(name) ==
  /\ AmountVariable(TC, TokenTarget, args.amount_var) # NoVar
  /\ \E sv \in Range(TC.state_variables) :
       /\ sv.name = name
       /\ is_dependent(TC, AmountVariable(TC, TokenTarget, args.amount_var), sv,
                       TokenTarget)

\* A state variable of that name occurs in a statement of the target function
\* that mentions the amount variable.
OccursWithAmount(name) ==
  /\ \E sv \in Range(TC.state_variables) : sv.name = name
  /\ \E node \in Range(TC.functions[TokenTarget].nodes) :
       /\ node.expression.class # "None"
       /\ Contains(node.expression.text, args.amount_var)
       /\ Contains(node.expression.text, name)

\* C30: in the result analyze returns, every listed state variable is one the
\* amount variable depends on in the target function or one that occurs in a
\* statement of the target function mentioning the amount variable; the
\* listed names are pairwise distinct; variable_modifications and
\* cross_function_inputs have an entry for exactly the listed names; and no
\* entry of cross_function_inputs names the target function.
C30_TokenFlowSound ==
  pc = "token_done" =>
    /\ \A i \in DOMAIN result.state_variables :
         \/ AmountDependsOn(result.state_variables[i].name)
         \/ OccursWithAmount(result.state_variables[i].name)
    /\ \A i \in DOMAIN result.state_variables, j \in DOMAIN result.state_variables :
         result.state_variables[i].name = result.state_variables[j].name => i = j
    /\ DOMAIN result.variable_modifications = Names(result.state_variables)
    /\ DOMAIN result.cross_function_inputs = Names(result.state_variables)
    /\ \A name \in DOMAIN result.cross_function_inputs :
         \A k \in DOMAIN result.cross_function_inputs[name] :
           result.cross_function_inputs[name][k].function # args.function_name

====
